---- MODULE Spec2Model ----
(***************************************************************************)
(* Model of the episode downloader: the torrent ranker (torrent-utils),    *)
(* the video/subtitle matcher and the resumable pipeline runs              *)
(* (episode_downloader.ts / episode_downloader.js) over an episode folder. *)
(*                                                                         *)
(* JavaScript strings are sequences of one-character strings, so that the  *)
(* regular expressions, toLowerCase, includes, split and parseInt of the   *)
(* source are computed character by character.                             *)
(***************************************************************************)
EXTENDS Integers, Sequences, FiniteSets, TLC

VARIABLES
  \* ---- torrent ranker (findMagnet / findMagnets) ----
  response,     \* the apibay response: [ok, isArray, items]
  minSeeds,     \* the minSeeds argument of the call
  rank,         \* what the call did: [op, err, filtered, ranked, magnet]
  \* ---- nameSimilarity ----
  simA, simB,   \* the two names compared
  sim,          \* [done, score]: the value returned, score = [num, den]
  \* ---- handleVideoAndSubtitleMatching ----
  loginOk,      \* whether the OpenSubtitles login returns a token
  heData,       \* the provider's data for the Hebrew search
  enData,       \* the provider's data for the English search
  match,        \* what the call did: [op, err, torrents, subtitles, video,
                \*                      subtitle, lang, bestScore]
  \* ---- runs of the pipeline on an episode folder ----
  pipeline,     \* "staged" (handleVideoDownload, handleSubtitles,
                \* handleMuxing) or "matching" (handleVideoAndSubtitleMatching)
  folder,       \* the episode folder: file name -> [size, whole]
  run,          \* the current run: [stage, videoPath, subtitlePath,
                \*   outputVideo, err, sources, earlierSubtitle, video,
                \*   subtitle, lang, heFound, enFound, downloaded]
  calls,        \* the collaborators the current run has called, in order
  \* ---- the WhatsApp channel (whatsapp-utils) ----
  whatsappReady,\* the ready flag
  messageQueue, \* the messages queued while the client is not ready
  handed,       \* the messages handed to whatsappClient.sendMessage
  passed,       \* the messages passed to sendWhatsAppMessage, in order
  waEvent,      \* the last thing the channel did: [name, err, flushed]
  \* ---- the control flow of one run ----
  program,      \* the entry point: "class", "main" or "script"
  flow,         \* [tunnel, myNumber, pc, next, started, failedAt, err,
                \*  notices, exit, elapsed, readyAtStart]
  \* ---- one call of sendVideoViaWhatsApp ----
  send,         \* [variant, myNumber, statOk, tooBig, pc, retryCount,
                \*  success, attempts, notices, err, raised]
  \* ---- the Telegram listener ----
  jobs,         \* the runs started by the listener, in order:
                \* [show, season, episode, folder, stage, stageNo, err]
  \* ---- the command line of the class-based program ----
  cli,          \* [pc, given, n, option]: whether --min-seeds was given,
                \* its value, and what the option parser made of it
  \* ---- one stage with a progress reporter ----
  task,         \* downloadTorrent, muxSubtitles or compressForWhatsapp:
                \* [kind, pc, alive, settled, blame, progress,
                \*  lastPercentNotified, notified, inflight, totalKnown,
                \*  handlerOn, doneFired, timerOn, sizeMB, outSize, copied]
  \* ---- the utilities ----
  translation,  \* one call of translateSRTtoHebrew: [pc, blocks, chunks, i,
                \*  requests, writes, err]
  duration      \* one call of formatDuration: [pc, seconds, out]

rankVars == <<response, minSeeds, rank>>
simVars == <<simA, simB, sim>>
matchVars == <<loginOk, heData, enData, match>>
runVars == <<pipeline, folder, run, calls>>
waVars == <<whatsappReady, messageQueue, handed, passed, waEvent>>
flowVars == <<program, flow>>
sendVars == <<send>>
listenVars == <<jobs>>
cliVars == <<cli>>
stageVars == <<task>>
utilVars == <<translation, duration>>
vars == <<rankVars, simVars, matchVars, runVars, waVars, flowVars, sendVars,
          listenVars, cliVars, stageVars, utilVars>>

-----------------------------------------------------------------------------
(* Characters and strings                                                  *)

UpperChars == <<"A","B","C","D","E","F","G","H","I","J","K","L","M",
                "N","O","P","Q","R","S","T","U","V","W","X","Y","Z">>
LowerChars == <<"a","b","c","d","e","f","g","h","i","j","k","l","m",
                "n","o","p","q","r","s","t","u","v","w","x","y","z">>
DigitChars == <<"0","1","2","3","4","5","6","7","8","9">>

Range(f) == {f[i] : i \in DOMAIN f}

IsDigit(c) == c \in Range(DigitChars)
DigitVal(c) == (CHOOSE i \in DOMAIN DigitChars : DigitChars[i] = c) - 1
IsWhite(c) == c \in {" ", "\t", "\n"}

\* String.prototype.toLowerCase, one character
lowerChar(c) ==
  IF c \in Range(UpperChars)
  THEN LowerChars[CHOOSE i \in DOMAIN UpperChars : UpperChars[i] = c]
  ELSE c

toLowerCase(s) == [i \in 1..Len(s) |-> lowerChar(s[i])]

\* String.prototype.includes
includes(s, sub) ==
  \E i \in 0..(Len(s) - Len(sub)) : SubSeq(s, i + 1, i + Len(sub)) = sub

\* String.prototype.endsWith
endsWith(s, suf) ==
  /\ Len(suf) <= Len(s)
  /\ SubSeq(s, Len(s) - Len(suf) + 1, Len(s)) = suf

\* /<pat>/i.test(s) for a pattern of literal lower-case characters
testIgnoreCase(pat, s) == includes(toLowerCase(s), pat)

-----------------------------------------------------------------------------
(* JavaScript numbers as far as the source uses them: an integer or NaN.   *)

Num(n) == [nan |-> FALSE, v |-> n]
NaN == [nan |-> TRUE, v |-> 0]

\* a >= b on numbers: false as soon as one side is NaN
numGE(a, b) == ~a.nan /\ ~b.nan /\ a.v >= b.v

RECURSIVE digitsValue(_)
digitsValue(ds) ==
  IF Len(ds) = 0 THEN 0
  ELSE 10 * digitsValue(SubSeq(ds, 1, Len(ds) - 1)) + DigitVal(ds[Len(ds)])

RECURSIVE leadingDigits(_)
leadingDigits(s) ==
  IF Len(s) = 0 \/ ~IsDigit(s[1]) THEN <<>>
  ELSE <<s[1]>> \o leadingDigits(Tail(s))

RECURSIVE skipWhite(_)
skipWhite(s) ==
  IF Len(s) > 0 /\ IsWhite(s[1]) THEN skipWhite(Tail(s)) ELSE s

\* parseInt(s): leading white space, an optional sign, the longest run of
\* decimal digits; NaN when there is no digit.
parseInt(s) ==
  LET t == skipWhite(s)
      neg == Len(t) > 0 /\ t[1] = "-"
      u == IF Len(t) > 0 /\ t[1] \in {"-", "+"} THEN Tail(t) ELSE t
      ds == leadingDigits(u)
  IN IF Len(ds) = 0 THEN NaN
     ELSE Num(IF neg THEN 0 - digitsValue(ds) ELSE digitsValue(ds))

RECURSIVE natToString(_)
natToString(n) ==
  IF n < 10 THEN <<DigitChars[n + 1]>>
  ELSE natToString(n \div 10) \o <<DigitChars[(n % 10) + 1]>>

(* A value of the `seeders?: string | number` field:                       *)
(*   k = "undef" (field absent), "num" (n) or "str" (s).                   *)
Undef == [k |-> "undef", n |-> 0, s |-> <<>>]
JNum(n) == [k |-> "num", n |-> n, s |-> <<>>]
JStr(s) == [k |-> "str", n |-> 0, s |-> s]

\* truthiness of the field, as `t.seeders && ...` and `t.seeders ? ... : ...`
truthy(x) ==
  CASE x.k = "undef" -> FALSE
    [] x.k = "num" -> x.n # 0
    [] x.k = "str" -> Len(x.s) > 0

\* String(x) of a truthy field value
String(x) == IF x.k = "num" THEN natToString(x.n) ELSE x.s

-----------------------------------------------------------------------------
(* torrent-utils: scoreTorrent, findMagnet, findMagnets                    *)

MaxResults == 3          \* longest apibay result list explored

TierWeight == 1000       \* qualityScore * 1000
SeederDivisor == 1000    \* parseInt(seeders) / 1000

Tag1080 == <<"1","0","8","0","p">>
Tag720 == <<"7","2","0","p">>
Tag480 == <<"4","8","0","p">>

\* let qualityScore = 0; if (/1080p/i.test(title)) ... else if ... else if ...
qualityScoreBad(title) ==
  IF testIgnoreCase(Tag720, title) THEN 2
  ELSE IF testIgnoreCase(Tag1080, title) THEN 3
  ELSE IF testIgnoreCase(Tag480, title) THEN 1
  ELSE 0

qualityScore(title) ==
  IF testIgnoreCase(Tag1080, title) THEN 3
  ELSE IF testIgnoreCase(Tag720, title) THEN 2
  ELSE IF testIgnoreCase(Tag480, title) THEN 1
  ELSE 0

\* parseInt(torrent.seeders ? String(torrent.seeders) : '0')
scoreSeeders(torrent) ==
  parseInt(IF truthy(torrent.seeders) THEN String(torrent.seeders) ELSE <<"0">>)

\* const searchQuery = `${show} ${EP_CODE}` for the show "r", season 1,
\* episode 2
SearchQuery == <<"r", " ", "s", "0", "1", "e", "0", "2">>

(* The similarity policy, which scoreTorrent names in a comment only:      *)
(*   // const sim = similarity(title, searchQuery);                        *)
(*   // return sim * 1000 + parseInt(torrent.seeders || 0) / 1000;         *)
(* No definition of similarity is in the source; it is written here as    *)
(* the specification describes it.                                         *)

\* lower-cased, every character outside [a-z0-9] removed
normalized(s) ==
  SelectSeq(toLowerCase(s), LAMBDA c : c \in Range(LowerChars) \/ IsDigit(c))

\* the indices, up to the shorter length, at which the two strings agree
agreeing(a, b) ==
  {i \in 1..(IF Len(a) <= Len(b) THEN Len(a) ELSE Len(b)) : a[i] = b[i]}

\* matches / max(len(a), len(b)), 0 when both are empty; kept as [num, den]
similarity(a, b) ==
  LET na == normalized(a)
      nb == normalized(b)
      longer == IF Len(na) >= Len(nb) THEN Len(na) ELSE Len(nb)
  IN IF longer = 0 THEN [num |-> 0, den |-> 1]
     ELSE [num |-> Cardinality(agreeing(na, nb)), den |-> longer]

\* scoreTorrent with the similarity policy in place of the quality
\* preference, in units of 1/SeederDivisor, rounded down
scoreTorrentBySimilarity(torrent) ==
  LET p == scoreSeeders(torrent)
      sm == similarity(torrent.name, SearchQuery)
  IN IF p.nan THEN NaN
     ELSE Num((sm.num * TierWeight * SeederDivisor) \div sm.den + p.v)

(* scoreTorrent returns qualityScore * 1000 + seeders / 1000.  The model    *)
(* keeps the score in units of 1/SeederDivisor, an integer: two scores      *)
(* compare as the doubles do (distinct integer seeder counts give distinct  *)
(* doubles at these magnitudes).  NaN + x is NaN.                           *)
scoreTorrent(torrent) ==
  LET p == scoreSeeders(torrent)
  IN IF p.nan THEN NaN
     ELSE Num(qualityScore(torrent.name) * TierWeight * SeederDivisor + p.v)

\* (minSeeds || 0)
seedThreshold(m) == IF m = 0 THEN 0 ELSE m

\* t => t.seeders && parseInt(String(t.seeders)) >= (minSeeds || 0)
passesSeedFilter(t, m) ==
  /\ truthy(t.seeders)
  /\ numGE(parseInt(String(t.seeders)), Num(seedThreshold(m)))

\* results.filter(...)
filterBySeeders(items, m) == SelectSeq(items, LAMBDA t : passesSeedFilter(t, m))

\* filtered.map(t => ({ ...t, score: scoreTorrent(t, searchQuery) }))
withScores(items) ==
  [i \in 1..Len(items) |->
     [name |-> items[i].name, seeders |-> items[i].seeders,
      info_hash |-> items[i].info_hash, score |-> scoreTorrent(items[i])]]

\* a comparator that orders by ascending score (a.score - b.score)
comesBeforeAscending(b, a) == ~a.score.nan /\ ~b.score.nan /\ b.score.v < a.score.v

\* the comparator (a, b) => b.score - a.score is positive when b must come
\* first; a NaN difference counts as 0
comesBefore(b, a) == ~a.score.nan /\ ~b.score.nan /\ b.score.v > a.score.v

\* insert e behind every element that does not have to follow it
insertSorted(sorted, e) ==
  LET after == {i \in 1..Len(sorted) : comesBefore(e, sorted[i])}
      k == IF after = {} THEN Len(sorted) + 1
           ELSE CHOOSE i \in after : \A j \in after : i <= j
  IN SubSeq(sorted, 1, k - 1) \o <<e>> \o SubSeq(sorted, k, Len(sorted))

\* scored.sort((a, b) => b.score - a.score): Array.prototype.sort is stable
RECURSIVE sortByScore(_)
sortByScore(scored) ==
  IF Len(scored) = 0 THEN <<>>
  ELSE insertSorted(sortByScore(SubSeq(scored, 1, Len(scored) - 1)),
                    scored[Len(scored)])

ErrRequest == "apibay request failed"
ErrNoTorrents == "No torrents found for this episode."
ErrFewSeeders == "No torrents found with enough seeders."
NoMagnet == [info_hash |-> 0, dn |-> <<>>]

\* the checks and the ranking both functions share, up to the sort
rankOutcome(op, resp, m) ==
  IF ~resp.ok THEN
    [op |-> op, err |-> ErrRequest, filtered |-> <<>>, ranked |-> <<>>,
     magnet |-> NoMagnet]
  ELSE IF ~resp.isArray \/ Len(resp.items) = 0 THEN
    [op |-> op, err |-> ErrNoTorrents, filtered |-> <<>>, ranked |-> <<>>,
     magnet |-> NoMagnet]
  ELSE
    LET filtered == filterBySeeders(resp.items, m)
    IN IF Len(filtered) = 0 THEN
         [op |-> op, err |-> ErrFewSeeders, filtered |-> <<>>, ranked |-> <<>>,
          magnet |-> NoMagnet]
       ELSE
         LET ranked == sortByScore(withScores(filtered))
         IN [op |-> op, err |-> "none", filtered |-> filtered, ranked |-> ranked,
             magnet |-> IF op = "findMagnet"
                        THEN [info_hash |-> ranked[1].info_hash,
                              dn |-> ranked[1].name]
                        ELSE NoMagnet]

findMagnet(resp, m) == rankOutcome("findMagnet", resp, m)
findMagnets(resp, m) == rankOutcome("findMagnets", resp, m)

(* The apibay answers explored: names carrying each quality tag (one in    *)
(* upper case, one with two tags), and seeders as a numeric string, a      *)
(* number, an unparseable string or absent.                                *)
Name1080 == <<"a", ".", "1", "0", "8", "0", "P">>
Name720 == <<"b", ".", "7", "2", "0", "p">>
Name480 == <<"c", ".", "4", "8", "0", "p">>
NameBoth == <<"7", "2", "0", "p", ".", "1", "0", "8", "0", "p">>
NamePlain == <<"w", "e", "b">>

Catalog ==
  { [name |-> Name1080, seeders |-> JStr(<<"2", "5">>), info_hash |-> 1],
    [name |-> Name720, seeders |-> JStr(<<"9", "9", "9">>), info_hash |-> 2],
    [name |-> Name720, seeders |-> JNum(2000000), info_hash |-> 3],
    [name |-> Name480, seeders |-> JStr(<<"3", "0">>), info_hash |-> 4],
    [name |-> NameBoth, seeders |-> JStr(<<"2", "5">>), info_hash |-> 5],
    [name |-> NamePlain, seeders |-> JStr(<<"7">>), info_hash |-> 6],
    [name |-> NamePlain, seeders |-> JNum(0), info_hash |-> 7],
    [name |-> Name1080, seeders |-> Undef, info_hash |-> 8],
    [name |-> Name720, seeders |-> JStr(<<"x">>), info_hash |-> 9] }

SeqsUpTo(S, n) == UNION {[1..k -> S] : k \in 0..n}

Responses ==
  {[ok |-> FALSE, isArray |-> FALSE, items |-> <<>>],
   [ok |-> TRUE, isArray |-> FALSE, items |-> <<>>]}
  \cup {[ok |-> TRUE, isArray |-> TRUE, items |-> l] : l \in SeqsUpTo(Catalog, MaxResults)}

MinSeedsValues == {0, 20, 1000}


-----------------------------------------------------------------------------
(* EpisodeDownloader.nameSimilarity                                        *)

IsAlnum(c) == c \in Range(LowerChars) \/ IsDigit(c)

\* s.replace(/[^a-z0-9]+/g, ' '): every maximal run of other characters
\* becomes one space
RECURSIVE replaceRuns(_)
replaceRuns(s) ==
  IF Len(s) = 0 THEN <<>>
  ELSE IF IsAlnum(s[1]) THEN <<s[1]>> \o replaceRuns(Tail(s))
  ELSE IF Len(s) > 1 /\ ~IsAlnum(s[2]) THEN replaceRuns(Tail(s))
  ELSE <<" ">> \o replaceRuns(Tail(s))

\* s.split(' '): the pieces between the spaces, empty pieces included
RECURSIVE split(_)
split(s) ==
  IF \A i \in 1..Len(s) : s[i] # " " THEN <<s>>
  ELSE LET k == CHOOSE i \in 1..Len(s) :
                  s[i] = " " /\ \A j \in 1..(i - 1) : s[j] # " "
       IN <<SubSeq(s, 1, k - 1)>> \o split(SubSeq(s, k + 1, Len(s)))

\* .filter(Boolean): drops the empty strings
filterBoolean(ws) == SelectSeq(ws, LAMBDA w : Len(w) > 0)

\* clean = s => s.toLowerCase().replace(...).split(' ').filter(Boolean)
cleanKeepCase(s) == filterBoolean(split(replaceRuns(s)))

clean(s) == filterBoolean(split(replaceRuns(toLowerCase(s))))

Max2(a, b) == IF a >= b THEN a ELSE b

\* the divisor Math.max(aWords.size, bWords.size, 1)
divisorUnion(aWords, bWords) == Max2(Cardinality(aWords \cup bWords), 1)

divisor(aWords, bWords) ==
  Max2(Max2(Cardinality(aWords), Cardinality(bWords)), 1)

(* nameSimilarity returns shared / Math.max(...): the model keeps the      *)
(* quotient as [num, den]; two quotients of such small integers compare    *)
(* as the doubles do.                                                      *)
nameSimilarity(a, b) ==
  LET aWords == Range(clean(a))
      bWords == Range(clean(b))
      shared == Cardinality({w \in aWords : w \in bWords})
  IN [num |-> shared, den |-> divisor(aWords, bWords)]

\* score > bestScore on two quotients with positive divisors
ratioGT(x, y) == x.num * y.den > y.num * x.den
ratioEQ(x, y) == x.num * y.den = y.num * x.den

RickTorrent ==
  <<"R","i","c","k"," ","a","n","d"," ","M","o","r","t","y"," ",
    "S","0","8","E","0","5"," ","1","0","8","0","p">>
RickSubtitle ==
  <<"R","i","c","k",".","a","n","d",".","M","o","r","t","y",".",
    "S","0","8","E","0","5",".","W","E","B">>

SimStrings ==
  { RickTorrent, RickSubtitle,
    <<>>,
    <<".", "-", ".">>,
    <<"a">>,
    <<"A", "-", "a">>,
    <<"a", ".", "b">>,
    <<".", "B", " ", " ", "c", "!">>,
    <<"a", "b", "c">>,
    <<"x", "y", "z">>,
    <<"a", "_", "b", "_", "c", "_", "d">>,
    <<"S", "0", "8", "E", "0", "5", ".", "1", "0", "8", "0", "p">>,
    <<"s", "0", "8", " ", "e", "0", "5">> }


-----------------------------------------------------------------------------
(* subtitles-utils: opensubsLogin, searchSubtitlesAll; and                 *)
(* EpisodeDownloader.handleVideoAndSubtitleMatching                        *)

MaxTorrents == 2         \* longest torrent list the matcher is given
MaxSubs == 2             \* longest Hebrew subtitle list the provider returns

\* searchSubtitlesAll: an entry without file_id is dropped, an empty
\* file_name becomes undefined
searchSubtitlesAll(data) ==
  LET kept == SelectSeq(data, LAMBDA d : d.file_id # 0)
  IN [i \in 1..Len(kept) |->
        [fileId |-> kept[i].file_id,
         fileName |-> IF truthy(kept[i].file_name) THEN kept[i].file_name
                      ELSE Undef,
         release |-> kept[i].release]]

ErrLogin == "OpenSubtitles login failed"
ErrNoSubtitles == "No subtitles found"

NoTorrent == [name |-> <<>>, seeders |-> Undef, info_hash |-> 0, score |-> NaN]
NoSubtitle == [fileId |-> 0, fileName |-> Undef, release |-> <<>>]
MinusOne == [num |-> 0 - 1, den |-> 1]

\* score > bestScore
betterLess(score, bestScore) == ratioGT(bestScore, score)
betterOrEqual(score, bestScore) == ~ratioGT(bestScore, score)

better(score, bestScore) == ratioGT(score, bestScore)

\* one pass of the inner loop body for (torrent, subtitle)
pairStep(best, torrent, subtitle) ==
  IF Len(torrent.name) = 0 \/ ~truthy(subtitle.fileName) THEN best
  ELSE LET score == nameSimilarity(torrent.name, subtitle.fileName.s)
       IN IF better(score, best.bestScore)
          THEN [bestScore |-> score, video |-> torrent, subtitle |-> subtitle]
          ELSE best

\* list[0]: undefined when the list is empty
first(list, undefined) == IF Len(list) = 0 THEN undefined ELSE list[1]

\* for (const torrent of torrents) for (const subtitle of subtitles) ...:
\* the pairs in iteration order, k = 1 .. Len(torrents) * Len(subtitles)
RECURSIVE bestPairUpTo(_, _, _)
bestPairUpTo(torrents, subtitles, k) ==
  IF k = 0
  THEN [bestScore |-> MinusOne, video |-> first(torrents, NoTorrent),
        subtitle |-> first(subtitles, NoSubtitle)]
  ELSE pairStep(bestPairUpTo(torrents, subtitles, k - 1),
                torrents[((k - 1) \div Len(subtitles)) + 1],
                subtitles[((k - 1) % Len(subtitles)) + 1])

\* a test that never finds the list empty
isEmptyNever(list) == FALSE

\* subtitles.length === 0
isEmpty(list) == Len(list) = 0

matchFailed(err, torrents) ==
  [op |-> "match", err |-> err, torrents |-> torrents, subtitles |-> <<>>,
   video |-> NoTorrent, subtitle |-> NoSubtitle, lang |-> "he",
   bestScore |-> MinusOne]

handleVideoAndSubtitleMatching(resp, m, login, he, en) ==
  LET found == findMagnets(resp, m)
      torrents == found.ranked
      heSubs == searchSubtitlesAll(he)
      enSubs == searchSubtitlesAll(en)
      subtitles == IF isEmpty(heSubs) THEN enSubs ELSE heSubs
      lang == IF isEmpty(heSubs) THEN "en" ELSE "he"
  IN IF found.err # "none" THEN matchFailed(found.err, <<>>)
     ELSE IF ~login THEN matchFailed(ErrLogin, torrents)
     ELSE IF isEmpty(subtitles) THEN matchFailed(ErrNoSubtitles, torrents)
     ELSE LET best == bestPairUpTo(torrents, subtitles,
                                   Len(torrents) * Len(subtitles))
          IN [op |-> "match", err |-> "none", torrents |-> torrents,
              subtitles |-> subtitles, video |-> best.video,
              subtitle |-> best.subtitle, lang |-> lang,
              bestScore |-> best.bestScore]

(* The candidates explored by the matcher: torrents with enough seeders,   *)
(* one of them without a name, two of them as similar to the first Hebrew  *)
(* entry as each other; provider entries with and without a                *)
(* file_name, and one without a file_id.                                   *)
MatchCatalog ==
  { [name |-> <<"R","m",".","S","0","1",".","7","2","0","p">>,
     seeders |-> JStr(<<"5", "0">>), info_hash |-> 11],
    [name |-> <<"x","y",".","1","0","8","0","p">>,
     seeders |-> JStr(<<"4", "0">>), info_hash |-> 12],
    [name |-> <<>>, seeders |-> JStr(<<"6", "0">>), info_hash |-> 13],
    [name |-> <<"r","m",".","s","0","1",".","W","E","B">>,
     seeders |-> JStr(<<"3", "0">>), info_hash |-> 14] }

MatchResponses ==
  {[ok |-> FALSE, isArray |-> FALSE, items |-> <<>>]}
  \cup {[ok |-> TRUE, isArray |-> TRUE, items |-> l] :
          l \in SeqsUpTo(MatchCatalog, MaxTorrents)}

HebrewCatalog ==
  { [file_id |-> 1, file_name |-> JStr(<<"r","m",".","s","0","1",".","s","r","t">>),
     release |-> <<"r", "1">>],
    [file_id |-> 2, file_name |-> JStr(<<"X","Y","-","h","e","b">>),
     release |-> <<"r", "2">>],
    [file_id |-> 3, file_name |-> Undef, release |-> <<"r", "3">>],
    [file_id |-> 4, file_name |-> JStr(<<"q",".","s","r","t">>),
     release |-> <<>>] }

EnglishAnswers ==
  { <<>>,
    <<[file_id |-> 5, file_name |-> JStr(<<"r","m","_","7","2","0","P">>),
       release |-> <<"r", "5">>]>>,
    <<[file_id |-> 0, file_name |-> JStr(<<"x","y">>), release |-> <<>>],
      [file_id |-> 6, file_name |-> JStr(<<>>), release |-> <<"r", "6">>]>> }

DefaultMinSeeds == 20    \* minSeeds: number = 20

-----------------------------------------------------------------------------
(* The episode folder: path, fs and the file-name tests of the pipeline    *)

MaxChunks == 2           \* chunks a subtitle file is split into
MaxRuns == 2             \* runs started on the episode folder

\* the show, season and episode of the request
Request == [show |-> <<"r">>, season |-> 1, episode |-> 2]

\* String(n).padStart(2, '0')
padStart2(s) ==
  IF Len(s) = 0 THEN <<"0", "0">>
  ELSE IF Len(s) = 1 THEN <<"0">> \o s
  ELSE s

epCode(season, episode) ==
  <<"s">> \o padStart2(natToString(season)) \o
  <<"e">> \o padStart2(natToString(episode))

episodeName(show, season, episode) ==
  show \o <<" ">> \o epCode(season, episode)

EpisodeName == episodeName(Request.show, Request.season, Request.episode)

VideoExtensions ==
  { <<".","m","p","4">>, <<".","m","k","v">>, <<".","a","v","i">>,
    <<".","m","o","v">>, <<".","w","m","v">>, <<".","f","l","v">> }

HebsubMark == <<".","h","e","b","s","u","b",".">>
WhatsappMark == <<".","w","h","a","t","s","a","p","p",".">>
SrtExtension == <<".","s","r","t">>
SubExtension == <<".","s","u","b">>

\* /\.(mp4|mkv|avi|mov|wmv|flv)$/i.test(file)
hasVideoExtension(file) ==
  \E e \in VideoExtensions : endsWith(toLowerCase(file), e)

\* the predicate of handleVideoDownload's find
isSourceVideo(file) ==
  /\ hasVideoExtension(file)
  /\ ~includes(file, HebsubMark)
  /\ ~includes(file, WhatsappMark)

\* the predicate of handleSubtitles' find
isHebrewSubtitle(file) ==
  /\ endsWith(toLowerCase(file), SrtExtension)
  /\ includes(toLowerCase(file), <<"h","e","b">>)

\* the test of the matching pipeline's search for a Hebrew subtitle file
isHebrewSubtitleFile(file) ==
  LET lower == toLowerCase(file)
  IN /\ \/ includes(lower, <<".","h","e","b",".">>)
        \/ includes(lower, <<"h","e","b","r","e","w">>)
     /\ \/ endsWith(lower, SrtExtension)
        \/ endsWith(lower, SubExtension)

\* path.extname: from the last dot on, empty when there is no dot or the
\* only dot is the first character
lastDot(file) ==
  LET dots == {i \in 1..Len(file) : file[i] = "."}
  IN IF dots = {} THEN 0 ELSE CHOOSE i \in dots : \A j \in dots : j <= i

extname(file) ==
  IF lastDot(file) <= 1 THEN <<>> ELSE SubSeq(file, lastDot(file), Len(file))

\* path.parse(file).name
parseName(file) == SubSeq(file, 1, Len(file) - Len(extname(file)))

\* `${path.parse(videoPath).name}.hebsub.mp4`
hebsubPath(videoPath) ==
  parseName(videoPath) \o <<".","h","e","b","s","u","b",".","m","p","4">>

\* `${episodeName}.${lang}.srt`
langSrtPath(lang) ==
  EpisodeName \o <<".">> \o
  (IF lang = "he" THEN <<"h","e">> ELSE <<"e","n">>) \o SrtExtension

HebSrtPath == EpisodeName \o <<".","h","e","b">> \o SrtExtension
EngSrtPath == EpisodeName \o <<".","e","n","g">> \o SrtExtension

NoPath == <<>>

\* A folder maps the names of its files to their content: size is the
\* length written, whole tells whether the writer finished the file.
EmptyFolder == <<>>

existsSync(fd, name) == name \in DOMAIN fd

writeFile(fd, name, file) ==
  [n \in (DOMAIN fd) \cup {name} |-> IF n = name THEN file ELSE fd[n]]

wholeFile(n) == [size |-> n, whole |-> TRUE]
partFile(n) == [size |-> n, whole |-> FALSE]

-----------------------------------------------------------------------------
(* The collaborators of a run, each as the set of results it can have      *)

ErrNoVideoInTorrent == "No video file found in the torrent."
ErrDownload == "Subtitle download failed"
ErrTranslate == "translation request failed"
ErrFfmpeg == "ffmpeg exited with code 1"
ErrNoEntry == "ENOENT"

\* the video file of the torrent: none, or a file of this name
TorrentVideos == { NoPath, <<"a",".","M","K","V">> }
DownloadSizes == {2}     \* lengths of a downloaded video
MuxSizes == {1, 3}       \* lengths of a muxed video: below and above it

\* downloadTorrent: rejects when the torrent holds no video file, resolves
\* with the path of the video once the torrent is done
downloadTorrent(fd) ==
  { IF video = NoPath
    THEN [folder |-> fd, err |-> ErrNoVideoInTorrent, videoPath |-> NoPath]
    ELSE [folder |-> writeFile(fd, video, wholeFile(n)),
          err |-> "none", videoPath |-> video] :
      video \in TorrentVideos, n \in DownloadSizes }

\* searchSubtitles: the first entry of the data, null (fileId 0) when there
\* is none or it has no file_id
searchSubtitles(data) ==
  IF Len(data) > 0 /\ data[1].file_id # 0
  THEN [fileId |-> data[1].file_id,
        fileName |-> IF truthy(data[1].file_name) THEN data[1].file_name
                     ELSE Undef,
        release |-> data[1].release]
  ELSE NoSubtitle

\* downloadSubtitle: throws before writing, or writes the whole file
downloadSubtitle(fd, subObj, dest) ==
  IF subObj.fileId = 0
  THEN {[folder |-> fd, err |-> "No file_id for subtitle download"]}
  ELSE {[folder |-> fd, err |-> ErrDownload]}
       \cup {[folder |-> writeFile(fd, dest, wholeFile(MaxChunks)),
               err |-> "none"]}

\* translateSRTtoHebrew: the destination is truncated, then one request per
\* chunk, each answer appended; a request that throws ends the call
translateSRTtoHebrew(fd, srcPath, destPath) ==
  IF ~existsSync(fd, srcPath) THEN {[folder |-> fd, err |-> ErrNoEntry]}
  ELSE LET chunks == fd[srcPath].size
       IN {[folder |-> fd, err |-> ErrTranslate]}
          \cup {[folder |-> writeFile(fd, destPath, partFile(k)),
                 err |-> ErrTranslate] : k \in 0..(chunks - 1)}
          \cup {[folder |-> writeFile(fd, destPath, wholeFile(chunks)),
                 err |-> "none"]}

\* muxSubtitles: ffmpeg -y writes outputPath; exit code 0 resolves, any
\* other code rejects, with or without an output file left behind
muxSubtitles(fd, outputPath) ==
  {[folder |-> writeFile(fd, outputPath, wholeFile(n)), err |-> "none"] :
     n \in MuxSizes}
  \cup {[folder |-> fd, err |-> ErrFfmpeg],
        [folder |-> writeFile(fd, outputPath, partFile(1)), err |-> ErrFfmpeg]}

\* handleMuxing: skipped when the output exists
handleMuxing(fd, videoPath, subtitlePath) ==
  LET outputVideo == hebsubPath(videoPath)
  IN IF existsSync(fd, outputVideo)
     THEN {[folder |-> fd, calls |-> <<>>, err |-> "none",
            outputVideo |-> outputVideo]}
     ELSE {[folder |-> m.folder, calls |-> <<"muxSubtitles">>, err |-> m.err,
            outputVideo |-> outputVideo] : m \in muxSubtitles(fd, outputVideo)}

\* a test that never sees the Hebrew candidate
hebrewFoundNever(subObj) == FALSE

\* if (subObj): the Hebrew search returned a candidate
hebrewFound(subObj) == subObj.fileId # 0

\* handleSubtitles when no Hebrew subtitle file exists: login, Hebrew
\* search and download, else English search, download and translation
fetchSubtitles(fd, login, he, en) ==
  LET subHe == searchSubtitles(he)
      subEn == searchSubtitles(en)
      subtitlePath == IF truthy(subHe.fileName) THEN subHe.fileName.s
                      ELSE HebSrtPath
      engPath == IF truthy(subEn.fileName) THEN subEn.fileName.s
                 ELSE EngSrtPath
      \* what the call did: the folder, the collaborators called, the error,
      \* the path returned, what each search returned and the language
      \* whose subtitles were downloaded
      foundHe == subHe.fileId # 0
      did(f, c, e, p, heFound, foundEn, lang) ==
        [folder |-> f, calls |-> c, err |-> e, subtitlePath |-> p,
         heFound |-> heFound, enFound |-> foundEn, downloaded |-> lang]
      toHe == <<"opensubsLogin", "searchSubtitles he">>
      toEn == toHe \o <<"searchSubtitles en">>
  IN IF ~login
     THEN {did(fd, <<"opensubsLogin">>, ErrLogin, NoPath, FALSE, FALSE, "none")}
     ELSE IF hebrewFound(subHe)
     THEN {IF d.err = "none"
           THEN did(d.folder, toHe \o <<"downloadSubtitle">>, "none",
                    subtitlePath, foundHe, FALSE, "he")
           ELSE did(d.folder, toHe \o <<"downloadSubtitle">>, d.err,
                    NoPath, foundHe, FALSE, "none") :
             d \in downloadSubtitle(fd, subHe, subtitlePath)}
     ELSE IF subEn.fileId = 0
     THEN {did(fd, toEn, ErrNoSubtitles, NoPath, foundHe, FALSE, "none")}
     ELSE UNION {
       IF d.err # "none"
       THEN {did(d.folder, toEn \o <<"downloadSubtitle">>, d.err, NoPath,
                 foundHe, TRUE, "none")}
       ELSE {did(t.folder,
                 toEn \o <<"downloadSubtitle", "translateSRTtoHebrew">>,
                 t.err, IF t.err = "none" THEN subtitlePath ELSE NoPath,
                 foundHe, TRUE, "en") :
               t \in translateSRTtoHebrew(d.folder, engPath, subtitlePath)} :
       d \in downloadSubtitle(fd, subEn, engPath)}

\* handleSubtitles: skipped when a Hebrew subtitle file exists
handleSubtitles(fd, login, he, en) ==
  LET existing == {f \in DOMAIN fd : isHebrewSubtitle(f)}
  IN IF existing # {}
     THEN {[folder |-> fd, calls |-> <<>>, err |-> "none",
            subtitlePath |-> f, heFound |-> FALSE, enFound |-> FALSE,
            downloaded |-> "none"] : f \in existing}
     ELSE fetchSubtitles(fd, login, he, en)

\* handleVideoDownload: skipped when a source video exists
handleVideoDownload(fd, resp, m) ==
  LET existing == {f \in DOMAIN fd : isSourceVideo(f)}
      found == findMagnet(resp, m)
  IN IF existing # {}
     THEN {[folder |-> fd, calls |-> <<>>, err |-> "none", videoPath |-> f] :
             f \in existing}
     ELSE IF found.err # "none"
     THEN {[folder |-> fd, calls |-> <<"findMagnet">>, err |-> found.err,
            videoPath |-> NoPath]}
     ELSE {[folder |-> d.folder, calls |-> <<"findMagnet", "downloadTorrent">>,
            err |-> d.err, videoPath |-> d.videoPath] :
             d \in downloadTorrent(fd)}

\* the matching pipeline's check for an existing video: the largest file
\* with a video extension, the first of them in directory order on a tie
largestVideos(fd) ==
  LET videos == {f \in DOMAIN fd :
                   /\ toLowerCase(extname(f)) \in VideoExtensions
                   /\ fd[f].size > 0}
  IN {f \in videos : \A g \in videos : fd[g].size <= fd[f].size}

\* step 3 of the matching pipeline's run; downloadTorrent resolves with the
\* path of a file, so the isDirectory branch is not taken
runVideoStep(fd) ==
  IF largestVideos(fd) # {}
  THEN {[folder |-> fd, calls |-> <<>>, err |-> "none", videoPath |-> f] :
          f \in largestVideos(fd)}
  ELSE {[folder |-> d.folder, calls |-> <<"downloadTorrent">>, err |-> d.err,
         videoPath |-> d.videoPath] : d \in downloadTorrent(fd)}

\* step 4 of the matching pipeline's run
runSubtitleStep(fd, login, subtitle, lang) ==
  LET subtitlePath == IF truthy(subtitle.fileName) THEN subtitle.fileName.s
                      ELSE langSrtPath(lang)
  IN IF ~login
     THEN {[folder |-> fd, calls |-> <<"opensubsLogin">>, err |-> ErrLogin,
            subtitlePath |-> NoPath]}
     ELSE IF existsSync(fd, subtitlePath)
     THEN {[folder |-> fd, calls |-> <<"opensubsLogin">>, err |-> "none",
            subtitlePath |-> subtitlePath]}
     ELSE {[folder |-> d.folder,
            calls |-> <<"opensubsLogin", "downloadSubtitle">>, err |-> d.err,
            subtitlePath |-> IF d.err = "none" THEN subtitlePath ELSE NoPath] :
              d \in downloadSubtitle(fd, subtitle, subtitlePath)}

\* step 5 of the matching pipeline's run
runMuxStep(fd, videoPath, subtitlePath, lang) ==
  LET hebSubFiles == {f \in DOMAIN fd : isHebrewSubtitleFile(f)}
  IN IF lang # "en" THEN handleMuxing(fd, videoPath, subtitlePath)
     ELSE IF hebSubFiles # {}
     THEN UNION {handleMuxing(fd, videoPath, f) : f \in hebSubFiles}
     ELSE UNION {
       IF t.err # "none"
       THEN {[folder |-> t.folder, calls |-> <<"translateSRTtoHebrew">>,
              err |-> t.err, outputVideo |-> NoPath]}
       ELSE {[h EXCEPT !.calls = <<"translateSRTtoHebrew">> \o @] :
               h \in handleMuxing(t.folder, videoPath, HebSrtPath)} :
       t \in translateSRTtoHebrew(fd, subtitlePath, HebSrtPath)}

\* the calls handleVideoAndSubtitleMatching made, from how far it got
matchingCalls(m) ==
  IF m.err \in {ErrRequest, ErrNoTorrents, ErrFewSeeders}
  THEN <<"findMagnets">>
  ELSE IF m.err = ErrLogin THEN <<"findMagnets", "opensubsLogin">>
  ELSE <<"findMagnets", "opensubsLogin", "searchSubtitlesAll he">>
       \o (IF m.err = ErrNoSubtitles \/ m.lang = "en"
           THEN <<"searchSubtitlesAll en">> ELSE <<>>)

(* What the index and the subtitle provider answer during a run            *)
RunResponses ==
  { [ok |-> FALSE, isArray |-> FALSE, items |-> <<>>],
    [ok |-> TRUE, isArray |-> TRUE,
     items |-> <<[name |-> <<"x","y",".","1","0","8","0","p">>,
                  seeders |-> JStr(<<"4", "0">>), info_hash |-> 12]>>] }

RunHebrew ==
  { <<>>,
    <<[file_id |-> 1, file_name |-> JStr(<<"r","m",".","s","r","t">>),
       release |-> <<"r", "1">>]>>,
    <<[file_id |-> 2, file_name |-> JStr(<<"r",".","H","e","b",".","s","r","t">>),
       release |-> <<"r", "2">>]>>,
    <<[file_id |-> 3, file_name |-> Undef, release |-> <<"r", "3">>]>> }

RunEnglish ==
  { <<>>,
    <<[file_id |-> 5, file_name |-> JStr(<<"r","m","_","7","2","0","P">>),
       release |-> <<"r", "5">>]>> }


-----------------------------------------------------------------------------
(* whatsapp-utils: the ready flag, the message queue and the client        *)

MaxMessages == 3         \* messages passed to sendWhatsAppMessage

ErrSend == "send failed"

\* what the channel did last: the handler, the error it threw, and how many
\* queued messages it handed to the client
NoEvent == [name |-> "none", err |-> "none", flushed |-> 0]

\* a 'ready' handler that hands the queue over and keeps it
onReadyKeepQueue(queue, given) ==
  [whatsappReady |-> TRUE, handed |-> given \o queue, messageQueue |-> queue]

\* sendWhatsAppMessage: queued while the client is not ready, else handed
\* to the client, whose rejection is thrown again; the results it can have
sendWhatsAppMessage(ready, queue, given, message) ==
  IF ~ready
  THEN {[messageQueue |-> Append(queue, message), handed |-> given,
         err |-> "none"]}
  ELSE {[messageQueue |-> queue, handed |-> Append(given, message),
         err |-> e] : e \in {"none", ErrSend}}

\* the 'ready' handler: the flag is set, every queued message is handed to
\* the client in queue order, the queue is emptied
onReady(queue, given) ==
  [whatsappReady |-> TRUE, handed |-> given \o queue, messageQueue |-> <<>>]

-----------------------------------------------------------------------------
(* The control flow of one run: its stages, the top-level catch, the       *)
(* failure notifications and the end of the process                        *)

WaitTimeout == 60000     \* waitForWhatsAppReady(timeout = 60000)
LegacyWaitTimeout == 30000   \* the same in the legacy script
LegacyPollInterval == 1000   \* setTimeout(resolve, 1000) in the legacy script
PollInterval == 2000     \* setTimeout(resolve, 2000)

\* the entry points: EpisodeDownloader.run of episode_downloader.ts
\* ("class"), main of the function-style pipeline ("main"), the main
\* workflow of episode_downloader.js ("script")
Programs == {"class", "main", "script"}

stagesOf(prog) ==
  IF prog = "class"
  THEN <<"setupDirectories", "handleVideoDownload", "handleSubtitles",
         "handleMuxing", "allDone">>
  ELSE IF prog = "main"
  THEN <<"setupDirectories", "handleVideoDownload", "handleSubtitles",
         "handleMuxing", "handleCompression", "allDone",
         "sendVideoViaWhatsApp">>
  ELSE <<"setupDirectories", "handleVideoDownload", "handleSubtitles",
         "handleMuxing", "allDone", "handleCompression",
         "sendVideoViaWhatsApp">>

\* the errors a stage can end with, besides a progress or status message
\* whose sending failed
errorsOf(stage) ==
  {ErrSend} \cup
  (IF stage = "setupDirectories" THEN {"EACCES"}
   ELSE IF stage = "handleVideoDownload"
   THEN {ErrRequest, ErrNoTorrents, ErrFewSeeders, ErrNoVideoInTorrent}
   ELSE IF stage = "handleSubtitles"
   THEN {ErrLogin, ErrNoSubtitles, ErrDownload, ErrTranslate}
   ELSE IF stage = "handleMuxing" THEN {ErrFfmpeg}
   ELSE IF stage = "handleCompression" THEN {"ffmpeg compression exited with code 1"}
   ELSE {})

\* sendMessage of a run: Telegram, or WhatsApp when a number is configured
usesWhatsApp(prog, tunnel) == prog # "class" \/ tunnel = "whatsapp"

\* whether sendMessage reaches a channel at all: the function-style main
\* and the class in WhatsApp mode send only when MY_NUMBER is set
sendsAtAll(prog, tunnel, myNumber) ==
  IF prog = "script" THEN TRUE
  ELSE IF usesWhatsApp(prog, tunnel) THEN myNumber
  ELSE TRUE

-----------------------------------------------------------------------------
(* The values of the variables of a component that is not running          *)

RankIdle == [op |-> "none", err |-> "none", filtered |-> <<>>, ranked |-> <<>>,
             magnet |-> NoMagnet]

SimIdle == [done |-> FALSE, score |-> [num |-> 0, den |-> 1]]

MatchIdle == matchFailed("none", <<>>) 

RankQuiet ==
  /\ response = [ok |-> FALSE, isArray |-> FALSE, items |-> <<>>]
  /\ minSeeds = DefaultMinSeeds
  /\ rank = RankIdle

SimQuiet == simA = <<>> /\ simB = <<>> /\ sim = SimIdle

MatchQuiet ==
  /\ loginOk = FALSE
  /\ heData = <<>>
  /\ enData = <<>>
  /\ match = [MatchIdle EXCEPT !.op = "none"]

\* n: the number of the run;
\* sources: the source videos in the folder when the run started;
\* earlierSubtitle: the path handleSubtitles returned in an earlier run
RunIdle ==
  [n |-> 0, stage |-> "idle", videoPath |-> NoPath, subtitlePath |-> NoPath,
   outputVideo |-> NoPath, err |-> "none", sources |-> {},
   earlierSubtitle |-> NoPath, video |-> NoTorrent, subtitle |-> NoSubtitle,
   lang |-> "he", heFound |-> FALSE, enFound |-> FALSE, downloaded |-> "none"]

RunQuiet ==
  /\ pipeline = "staged"
  /\ folder = EmptyFolder
  /\ run = RunIdle
  /\ calls = <<>>

WaQuiet ==
  /\ whatsappReady = FALSE
  /\ messageQueue = <<>>
  /\ handed = <<>>
  /\ passed = <<>>
  /\ waEvent = NoEvent

\* pc: "idle", "wait", "stage", "catch", "finally" or "ended";
\* next: the index of the stage to start next; started: the stages started;
\* failedAt: the index of the stage that raised; notices: the failure
\* notifications attempted; exit: the exit status, "none" while the
\* process runs on
FlowIdle ==
  [tunnel |-> "telegram", myNumber |-> TRUE, pc |-> "idle", next |-> 1,
   started |-> <<>>, failedAt |-> 0, err |-> "none", notices |-> <<>>,
   exit |-> "none", elapsed |-> 0, readyAtStart |-> FALSE]

FlowQuiet == program = "class" /\ flow = FlowIdle

SendIdle ==
  [variant |-> "utils", myNumber |-> FALSE, statOk |-> FALSE,
   tooBig |-> FALSE, pc |-> "idle", retryCount |-> 0, success |-> FALSE,
   attempts |-> <<>>, notices |-> <<>>, err |-> "none", raised |-> FALSE]

SendQuiet == send = SendIdle

ListenQuiet == jobs = <<>>

CliIdle == [pc |-> "idle", given |-> FALSE, n |-> 0, option |-> Num(0)]

CliQuiet == cli = CliIdle

\* pc: "idle", "starting" (downloadTorrent awaits its first notification),
\* "skip notice" (compressForWhatsapp awaits the notice before copying),
\* "running" or "ended"; settled: the promise; alive: the process runs;
\* blame: what a failed notification did to the stage
StageIdle ==
  [kind |-> "download", pc |-> "idle", alive |-> TRUE, settled |-> "pending",
   blame |-> "none", progress |-> 0, lastPercentNotified |-> 0,
   notified |-> <<>>, inflight |-> 0, totalKnown |-> FALSE,
   handlerOn |-> FALSE, doneFired |-> FALSE, timerOn |-> FALSE,
   sizeMB |-> 0, outSize |-> 0, copied |-> FALSE]

StageQuiet == task = StageIdle

TranslationIdle ==
  [pc |-> "idle", blocks |-> <<>>, chunks |-> <<>>, i |-> 0,
   requests |-> <<>>, writes |-> <<>>, err |-> "none"]

DurationIdle == [pc |-> "idle", seconds |-> 0, out |-> <<>>]

UtilQuiet == translation = TranslationIdle /\ duration = DurationIdle

-----------------------------------------------------------------------------
(* The ranker alone: one call of findMagnet or findMagnets on an answer    *)
(* of the index                                                            *)

InitRank ==
  /\ response \in Responses
  /\ minSeeds \in MinSeedsValues
  /\ rank = RankIdle
  /\ SimQuiet
  /\ MatchQuiet
  /\ RunQuiet
  /\ WaQuiet
  /\ FlowQuiet
  /\ SendQuiet
  /\ ListenQuiet
  /\ CliQuiet
  /\ StageQuiet
  /\ UtilQuiet

FindMagnet ==
  /\ rank.op = "none"
  /\ rank' = findMagnet(response, minSeeds)
  /\ UNCHANGED <<response, minSeeds, simVars, matchVars, runVars, waVars, flowVars,
                 sendVars, listenVars, cliVars, stageVars,
                 utilVars>>

FindMagnets ==
  /\ rank.op = "none"
  /\ rank' = findMagnets(response, minSeeds)
  /\ UNCHANGED <<response, minSeeds, simVars, matchVars, runVars, waVars, flowVars,
                 sendVars, listenVars, cliVars, stageVars,
                 utilVars>>

NextRank == FindMagnet \/ FindMagnets

SpecRank == InitRank /\ [][NextRank]_vars

-----------------------------------------------------------------------------
(* nameSimilarity alone: one call on a pair of names                       *)

InitSim ==
  /\ simA \in SimStrings
  /\ simB \in SimStrings
  /\ sim = SimIdle
  /\ RankQuiet
  /\ MatchQuiet
  /\ RunQuiet
  /\ WaQuiet
  /\ FlowQuiet
  /\ SendQuiet
  /\ ListenQuiet
  /\ CliQuiet
  /\ StageQuiet
  /\ UtilQuiet

NameSimilarity ==
  /\ ~sim.done
  /\ sim' = [done |-> TRUE, score |-> nameSimilarity(simA, simB)]
  /\ UNCHANGED <<simA, simB, rankVars, matchVars, runVars, waVars, flowVars,
                 sendVars, listenVars, cliVars, stageVars,
                 utilVars>>

NextSim == NameSimilarity

SpecSim == InitSim /\ [][NextSim]_vars

-----------------------------------------------------------------------------
(* The matcher alone: one call of handleVideoAndSubtitleMatching           *)

InitMatch ==
  /\ response \in MatchResponses
  /\ minSeeds = DefaultMinSeeds
  /\ rank = RankIdle
  /\ loginOk \in BOOLEAN
  /\ heData \in SeqsUpTo(HebrewCatalog, MaxSubs)
  /\ enData \in EnglishAnswers
  /\ match = [MatchIdle EXCEPT !.op = "none"]
  /\ SimQuiet
  /\ RunQuiet
  /\ WaQuiet
  /\ FlowQuiet
  /\ SendQuiet
  /\ ListenQuiet
  /\ CliQuiet
  /\ StageQuiet
  /\ UtilQuiet

HandleVideoAndSubtitleMatching ==
  /\ match.op = "none"
  /\ match' = handleVideoAndSubtitleMatching(response, minSeeds, loginOk,
                                             heData, enData)
  /\ UNCHANGED <<rankVars, simVars, loginOk, heData, enData, runVars, waVars, flowVars,
                 sendVars, listenVars, cliVars, stageVars,
                 utilVars>>

NextMatch == HandleVideoAndSubtitleMatching

SpecMatch == InitMatch /\ [][NextMatch]_vars

-----------------------------------------------------------------------------
(* Runs of a pipeline on one episode folder, one after the other:          *)
(* EpisodeDownloader.run, either the staged pipeline (handleVideoDownload, *)
(* handleSubtitles, handleMuxing) or the matching pipeline.                *)

InitRun ==
  /\ pipeline \in {"staged", "matching"}
  /\ folder = EmptyFolder
  /\ run = RunIdle
  /\ calls = <<>>
  /\ RankQuiet
  /\ SimQuiet
  /\ MatchQuiet
  /\ WaQuiet
  /\ FlowQuiet
  /\ SendQuiet
  /\ ListenQuiet
  /\ CliQuiet
  /\ StageQuiet
  /\ UtilQuiet

\* the run after a stage that ended with err: the catch block ends the run
afterStage(err, next) ==
  IF err # "none" THEN [run EXCEPT !.stage = "ended", !.err = err]
  ELSE [run EXCEPT !.stage = next]

\* new EpisodeDownloader(...).run() up to setupDirectories
StartRun ==
  /\ run.stage \in {"idle", "ended"}
  /\ run.n < MaxRuns
  /\ run' = [RunIdle EXCEPT
               !.n = run.n + 1,
               !.stage = IF pipeline = "staged" THEN "video" ELSE "match",
               !.sources = {f \in DOMAIN folder : isSourceVideo(f)},
               !.earlierSubtitle = IF run.subtitlePath # NoPath
                                   THEN run.subtitlePath
                                   ELSE run.earlierSubtitle]
  /\ calls' = <<>>
  /\ UNCHANGED <<pipeline, folder, rankVars, simVars, matchVars, waVars, flowVars,
                 sendVars, listenVars, cliVars, stageVars,
                 utilVars>>

HandleVideoDownload ==
  /\ pipeline = "staged"
  /\ run.stage = "video"
  /\ \E resp \in RunResponses :
       \E o \in handleVideoDownload(folder, resp, minSeeds) :
         /\ folder' = o.folder
         /\ calls' = calls \o o.calls
         /\ run' = [afterStage(o.err, "subs") EXCEPT !.videoPath = o.videoPath]
  /\ UNCHANGED <<pipeline, rankVars, simVars, matchVars, waVars, flowVars,
                 sendVars, listenVars, cliVars, stageVars,
                 utilVars>>

HandleSubtitles ==
  /\ pipeline = "staged"
  /\ run.stage = "subs"
  /\ \E login \in BOOLEAN, he \in RunHebrew, en \in RunEnglish :
       \E o \in handleSubtitles(folder, login, he, en) :
         /\ folder' = o.folder
         /\ calls' = calls \o o.calls
         /\ run' = [afterStage(o.err, "mux") EXCEPT
                      !.subtitlePath = o.subtitlePath,
                      !.heFound = o.heFound,
                      !.enFound = o.enFound,
                      !.downloaded = o.downloaded]
  /\ UNCHANGED <<pipeline, rankVars, simVars, matchVars, waVars, flowVars,
                 sendVars, listenVars, cliVars, stageVars,
                 utilVars>>

\* handleMuxing and the completion message that ends the run
HandleMuxing ==
  /\ pipeline = "staged"
  /\ run.stage = "mux"
  /\ \E o \in handleMuxing(folder, run.videoPath, run.subtitlePath) :
       /\ folder' = o.folder
       /\ calls' = calls \o o.calls
       /\ run' = [afterStage(o.err, "ended") EXCEPT
                    !.outputVideo = IF o.err = "none" THEN o.outputVideo
                                    ELSE NoPath]
  /\ UNCHANGED <<pipeline, rankVars, simVars, matchVars, waVars, flowVars,
                 sendVars, listenVars, cliVars, stageVars,
                 utilVars>>

\* step 2 of the matching pipeline: handleVideoAndSubtitleMatching
RunMatching ==
  /\ pipeline = "matching"
  /\ run.stage = "match"
  /\ \E resp \in RunResponses, login \in BOOLEAN,
        he \in RunHebrew, en \in RunEnglish :
       LET m == handleVideoAndSubtitleMatching(resp, minSeeds, login, he, en)
       IN /\ calls' = calls \o matchingCalls(m)
          /\ run' = [afterStage(m.err, "video") EXCEPT
                       !.video = m.video, !.subtitle = m.subtitle,
                       !.lang = m.lang]
  /\ UNCHANGED <<pipeline, folder, rankVars, simVars, matchVars, waVars, flowVars,
                 sendVars, listenVars, cliVars, stageVars,
                 utilVars>>

\* step 3 of the matching pipeline: the existing video or the download
RunVideoStep ==
  /\ pipeline = "matching"
  /\ run.stage = "video"
  /\ \E o \in runVideoStep(folder) :
       /\ folder' = o.folder
       /\ calls' = calls \o o.calls
       /\ run' = [afterStage(o.err, "subs") EXCEPT !.videoPath = o.videoPath]
  /\ UNCHANGED <<pipeline, rankVars, simVars, matchVars, waVars, flowVars,
                 sendVars, listenVars, cliVars, stageVars,
                 utilVars>>

\* step 4 of the matching pipeline: the subtitle file
RunSubtitleStep ==
  /\ pipeline = "matching"
  /\ run.stage = "subs"
  /\ \E login \in BOOLEAN :
       \E o \in runSubtitleStep(folder, login, run.subtitle, run.lang) :
         /\ folder' = o.folder
         /\ calls' = calls \o o.calls
         /\ run' = [afterStage(o.err, "mux") EXCEPT
                      !.subtitlePath = o.subtitlePath]
  /\ UNCHANGED <<pipeline, rankVars, simVars, matchVars, waVars, flowVars,
                 sendVars, listenVars, cliVars, stageVars,
                 utilVars>>

\* step 5 of the matching pipeline: translation if needed, muxing, and the
\* completion message that ends the run
RunMuxStep ==
  /\ pipeline = "matching"
  /\ run.stage = "mux"
  /\ \E o \in runMuxStep(folder, run.videoPath, run.subtitlePath, run.lang) :
       /\ folder' = o.folder
       /\ calls' = calls \o o.calls
       /\ run' = [afterStage(o.err, "ended") EXCEPT
                    !.outputVideo = IF o.err = "none" THEN o.outputVideo
                                    ELSE NoPath]
  /\ UNCHANGED <<pipeline, rankVars, simVars, matchVars, waVars, flowVars,
                 sendVars, listenVars, cliVars, stageVars,
                 utilVars>>

NextRun ==
  \/ StartRun
  \/ HandleVideoDownload
  \/ HandleSubtitles
  \/ HandleMuxing
  \/ RunMatching
  \/ RunVideoStep
  \/ RunSubtitleStep
  \/ RunMuxStep

SpecRun == InitRun /\ [][NextRun]_vars

-----------------------------------------------------------------------------
(* The control flow of a run: waitForWhatsAppReady, the stages one after   *)
(* the other, the catch and finally blocks of run / main                   *)

InitFlow ==
  /\ program \in Programs
  /\ \E t \in {"telegram", "whatsapp"}, n \in BOOLEAN :
       /\ program # "class" => t = "whatsapp"
       /\ flow = [FlowIdle EXCEPT !.tunnel = t, !.myNumber = n]
  /\ SendQuiet
  /\ ListenQuiet
  /\ CliQuiet
  /\ StageQuiet
  /\ UtilQuiet
  /\ WaQuiet
  /\ RankQuiet
  /\ SimQuiet
  /\ MatchQuiet
  /\ RunQuiet

\* a failure notification of the run: what sendMessage can do with it
notify(kind, text) ==
  LET notice == [kind |-> kind, text |-> text]
  IN IF ~sendsAtAll(program, flow.tunnel, flow.myNumber)
     THEN {[notices |-> flow.notices, messageQueue |-> messageQueue,
            handed |-> handed, passed |-> passed, waEvent |-> waEvent,
            err |-> "none"]}
     ELSE IF usesWhatsApp(program, flow.tunnel)
     THEN {[notices |-> Append(flow.notices, notice),
            messageQueue |-> o.messageQueue, handed |-> o.handed,
            passed |-> Append(passed, notice),
            waEvent |-> [name |-> "sendWhatsAppMessage", err |-> o.err,
                         flushed |-> 0],
            err |-> o.err] :
             o \in sendWhatsAppMessage(whatsappReady, messageQueue, handed,
                                       notice)}
     ELSE {[notices |-> Append(flow.notices, notice),
            messageQueue |-> messageQueue, handed |-> handed,
            passed |-> passed, waEvent |-> waEvent, err |-> e] :
             e \in {"none", ErrSend}}

\* a stage that raises while the next stage is started all the same
raisedAndWentOn(begun, e) ==
  [begun EXCEPT !.failedAt = flow.next, !.err = e,
                !.next = IF flow.next < Len(stagesOf(program))
                         THEN flow.next + 1 ELSE flow.next]

\* the flow once the stage just begun has raised e: the rest of the try
\* block is skipped, the catch block is next
raised(begun, e) ==
  [begun EXCEPT !.pc = "catch", !.failedAt = flow.next, !.err = e]

\* run() / main() is called
StartFlow ==
  /\ flow.pc = "idle"
  /\ flow' = [flow EXCEPT !.pc = IF usesWhatsApp(program, flow.tunnel)
                                 THEN "wait" ELSE "stage"]
  /\ UNCHANGED <<program, waVars, rankVars, simVars, matchVars, runVars,
                 sendVars, listenVars, cliVars, stageVars,
                 utilVars>>

\* the default timeout of waitForWhatsAppReady in each program
waitTimeout(prog) == IF prog = "script" THEN LegacyWaitTimeout ELSE WaitTimeout

\* the pause between two polls in each program
pollInterval(prog) == IF prog = "script" THEN LegacyPollInterval ELSE PollInterval

\* a wait that is over at once
keepWaitingNever(ready, elapsed, timeout) == FALSE

\* the condition of the polling loop
keepWaiting(ready, elapsed, timeout) == ~ready /\ elapsed < timeout

\* waitForWhatsAppReady: one pass of the polling loop, or its end
WaitForWhatsAppReady ==
  /\ flow.pc = "wait"
  /\ IF keepWaiting(whatsappReady, flow.elapsed, waitTimeout(program))
     THEN flow' = [flow EXCEPT !.elapsed = @ + pollInterval(program)]
     ELSE flow' = [flow EXCEPT !.pc = "stage", !.readyAtStart = whatsappReady]
  /\ UNCHANGED <<program, waVars, rankVars, simVars, matchVars, runVars,
                 sendVars, listenVars, cliVars, stageVars,
                 utilVars>>

\* the client's 'ready' event while a run is in progress
ClientReady ==
  /\ flow.pc \in {"wait", "stage"}
  /\ ~whatsappReady
  /\ whatsappReady' = onReady(messageQueue, handed).whatsappReady
  /\ handed' = onReady(messageQueue, handed).handed
  /\ messageQueue' = onReady(messageQueue, handed).messageQueue
  /\ waEvent' = [name |-> "ready", err |-> "none",
                 flushed |-> Len(messageQueue)]
  /\ UNCHANGED <<passed, flowVars, rankVars, simVars, matchVars, runVars,
                 sendVars, listenVars, cliVars, stageVars,
                 utilVars>>

\* the next stage is started and ends: the following stage is next, or
\* the error it raised is on its way to the catch block; handleCompression
\* reports its error itself before throwing it again
RunStage ==
  /\ flow.pc = "stage"
  /\ LET stages == stagesOf(program)
         stage == stages[flow.next]
         begun == [flow EXCEPT !.started = Append(@, stage)]
     IN \E e \in {"none"} \cup errorsOf(stage) :
          IF e = "none"
          THEN /\ flow' = IF flow.next = Len(stages)
                          THEN [begun EXCEPT !.pc = "finally"]
                          ELSE [begun EXCEPT !.next = @ + 1]
               /\ UNCHANGED waVars
          ELSE IF stage = "handleCompression"
          THEN \E o \in notify("compression", e) :
                 /\ flow' = [raised(begun, IF o.err = "none" THEN e
                                            ELSE o.err)
                               EXCEPT !.notices = o.notices]
                 /\ messageQueue' = o.messageQueue
                 /\ handed' = o.handed
                 /\ passed' = o.passed
                 /\ waEvent' = o.waEvent
                 /\ UNCHANGED whatsappReady
          ELSE /\ flow' = raised(begun, e)
               /\ UNCHANGED waVars
  /\ UNCHANGED <<program, rankVars, simVars, matchVars, runVars, sendVars,
                 listenVars, cliVars, stageVars, utilVars>>

\* the catch block: the failure notification, the delay, and process.exit(1)
\* where it is not commented out; a notification that throws leaves the
\* block with the run's promise rejected
Catch ==
  /\ flow.pc = "catch"
  /\ \E o \in notify("top", flow.err) :
       /\ flow' = IF o.err # "none"
                  THEN [flow EXCEPT !.pc = "finally", !.notices = o.notices,
                                    !.exit = "rejected"]
                  ELSE IF program = "class"
                  THEN [flow EXCEPT !.pc = "finally", !.notices = o.notices]
                  ELSE [flow EXCEPT !.pc = "ended", !.notices = o.notices,
                                    !.exit = "1"]
       /\ messageQueue' = o.messageQueue
       /\ handed' = o.handed
       /\ passed' = o.passed
       /\ waEvent' = o.waEvent
  /\ UNCHANGED <<program, whatsappReady, rankVars, simVars, matchVars, runVars,
                 sendVars, listenVars, cliVars, stageVars,
                 utilVars>>

\* how the process ends once nothing is left to do: a rejected promise
\* nobody handles ends it with status 1 or is only reported, depending on
\* the runtime; the script has destroyed its client and the class in
\* Telegram mode has none, so they end with status 0; elsewhere the
\* WhatsApp client keeps the process running
exitsAfterRun(prog, tunnel, rejected) ==
  (IF rejected THEN {"1"} ELSE {})
  \cup (IF prog = "script" \/ ~usesWhatsApp(prog, tunnel) THEN {"0"}
        ELSE {"none"})

\* the finally block and the return of run / main
Finally ==
  /\ flow.pc = "finally"
  /\ \E x \in exitsAfterRun(program, flow.tunnel, flow.exit = "rejected") :
       flow' = [flow EXCEPT !.pc = "ended", !.exit = x]
  /\ UNCHANGED <<program, waVars, rankVars, simVars, matchVars, runVars,
                 sendVars, listenVars, cliVars, stageVars,
                 utilVars>>

NextFlow ==
  \/ StartFlow
  \/ WaitForWhatsAppReady
  \/ ClientReady
  \/ RunStage
  \/ Catch
  \/ Finally

SpecFlow == InitFlow /\ [][NextFlow]_vars

-----------------------------------------------------------------------------
(* The WhatsApp channel alone: messages passed to sendWhatsAppMessage      *)
(* while the client becomes ready, is disconnected or fails to             *)
(* authenticate                                                            *)

MessageTexts == {"progress", "error"}

InitQueue ==
  /\ WaQuiet
  /\ FlowQuiet
  /\ SendQuiet
  /\ ListenQuiet
  /\ CliQuiet
  /\ StageQuiet
  /\ UtilQuiet
  /\ RankQuiet
  /\ SimQuiet
  /\ MatchQuiet
  /\ RunQuiet

SendWhatsAppMessage ==
  /\ Len(passed) < MaxMessages
  /\ \E text \in MessageTexts :
       \E o \in sendWhatsAppMessage(whatsappReady, messageQueue, handed, text) :
         /\ messageQueue' = o.messageQueue
         /\ handed' = o.handed
         /\ passed' = Append(passed, text)
         /\ waEvent' = [name |-> "sendWhatsAppMessage", err |-> o.err,
                        flushed |-> 0]
  /\ UNCHANGED <<whatsappReady, flowVars, rankVars, simVars, matchVars, runVars,
                 sendVars, listenVars, cliVars, stageVars,
                 utilVars>>

Ready ==
  /\ whatsappReady' = onReady(messageQueue, handed).whatsappReady
  /\ handed' = onReady(messageQueue, handed).handed
  /\ messageQueue' = onReady(messageQueue, handed).messageQueue
  /\ waEvent' = [name |-> "ready", err |-> "none",
                 flushed |-> Len(messageQueue)]
  /\ UNCHANGED <<passed, flowVars, rankVars, simVars, matchVars, runVars,
                 sendVars, listenVars, cliVars, stageVars,
                 utilVars>>

AuthFailure ==
  /\ whatsappReady' = FALSE
  /\ waEvent' = [name |-> "auth_failure", err |-> "none", flushed |-> 0]
  /\ UNCHANGED <<messageQueue, handed, passed, flowVars, rankVars, simVars,
                 matchVars, runVars, sendVars, listenVars,
                 cliVars, stageVars, utilVars>>

Disconnected ==
  /\ whatsappReady' = FALSE
  /\ waEvent' = [name |-> "disconnected", err |-> "none", flushed |-> 0]
  /\ UNCHANGED <<messageQueue, handed, passed, flowVars, rankVars, simVars,
                 matchVars, runVars, sendVars, listenVars,
                 cliVars, stageVars, utilVars>>

NextQueue == SendWhatsAppMessage \/ Ready \/ AuthFailure \/ Disconnected

SpecQueue == InitQueue /\ [][NextQueue]_vars

-----------------------------------------------------------------------------
(* sendVideoViaWhatsApp ("utils") and the same loop inside the legacy      *)
(* script ("script"), one await at a time, while the client's events       *)
(* arrive                                                                  *)

maxRetries == 3

ErrPrepare == "media not prepared"
ErrStat == "no such file"

\* the three ways the media is sent, by retryCount
mediaKind(retryCount) ==
  IF retryCount = 0 THEN "standard"
  ELSE IF retryCount = 1 THEN "no caption" ELSE "document"

\* the text notices of the function
NoticeTooBig == "Compressed file is too big to send on WhatsApp"
NoticeRetry == "Retry attempt"
NoticeSending == "Sending compressed video via WhatsApp"
NoticeFailed == "WhatsApp sending failed"
NoticeFallback == "Video file ready but couldn't send via WhatsApp"

\* one text notice: sendMessage of whatsapp-utils does nothing without
\* MY_NUMBER, the script calls sendWhatsAppMessage directly
sendNotice(text) ==
  IF send.variant = "utils" /\ ~send.myNumber
  THEN {[notices |-> send.notices, messageQueue |-> messageQueue,
         handed |-> handed, passed |-> passed, waEvent |-> waEvent,
         err |-> "none"]}
  ELSE {[notices |-> Append(send.notices, text),
         messageQueue |-> o.messageQueue, handed |-> o.handed,
         passed |-> Append(passed, text),
         waEvent |-> [name |-> "sendWhatsAppMessage", err |-> o.err,
                      flushed |-> 0],
         err |-> o.err] :
          o \in sendWhatsAppMessage(whatsappReady, messageQueue, handed, text)}

\* the notice that opens the outer catch block
sendFailedNotice == sendNotice(NoticeFailed)

\* the channel's part of a step that sent the notice with outcome o
noticed(o) ==
  /\ messageQueue' = o.messageQueue
  /\ handed' = o.handed
  /\ passed' = o.passed
  /\ waEvent' = o.waEvent
  /\ UNCHANGED whatsappReady

notNoticed == UNCHANGED waVars

elsewhere == UNCHANGED <<flowVars, rankVars, simVars, matchVars, runVars, listenVars,
                 cliVars, stageVars, utilVars>>

InitSend ==
  /\ SendQuiet
  /\ ListenQuiet
  /\ CliQuiet
  /\ StageQuiet
  /\ UtilQuiet
  /\ WaQuiet
  /\ FlowQuiet
  /\ RankQuiet
  /\ SimQuiet
  /\ MatchQuiet
  /\ RunQuiet

\* the call: getFileInfo / statSync, then the 95 MB check
SendVideoViaWhatsApp ==
  /\ send.pc = "idle"
  /\ \E v \in {"utils", "script"}, n \in BOOLEAN, st \in BOOLEAN,
        big \in BOOLEAN :
       LET s0 == [SendIdle EXCEPT !.variant = v, !.myNumber = n,
                                  !.statOk = st, !.tooBig = big]
       IN /\ st \/ ~big
          /\ v = "script" => n
          /\ IF ~st
             THEN send' = [s0 EXCEPT !.pc = "catch", !.err = ErrStat]
             ELSE send' = [s0 EXCEPT !.pc = IF big THEN "too big" ELSE "loop"]
  /\ notNoticed
  /\ elsewhere

\* the file is too big: one notice, then return
TooBig ==
  /\ send.pc = "too big"
  /\ \E o \in sendNotice(NoticeTooBig) :
       /\ send' = [send EXCEPT !.notices = o.notices,
                               !.pc = IF o.err = "none" THEN "done" ELSE "catch",
                               !.err = o.err]
       /\ noticed(o)
  /\ elsewhere

\* the loop condition: retryCount < maxRetries && !success
LoopTest ==
  /\ send.pc = "loop"
  /\ send' = [send EXCEPT !.pc = IF send.retryCount < maxRetries /\ ~send.success
                                 THEN "announce" ELSE "done"]
  /\ notNoticed
  /\ elsewhere

\* the text notices before an attempt: 'Retry attempt n' after a failure;
\* 'Sending compressed video' on the first attempt (utils) or on every
\* attempt (script)
Announce ==
  /\ send.pc = "announce"
  /\ IF send.retryCount > 0
     THEN \E o \in sendNotice(NoticeRetry) :
            /\ noticed(o)
            /\ send' = [send EXCEPT
                 !.notices = o.notices,
                 !.pc = IF o.err # "none" THEN "send error"
                        ELSE IF send.variant = "script" THEN "announce again"
                        ELSE "media"]
     ELSE \E o \in sendNotice(NoticeSending) :
            /\ noticed(o)
            /\ send' = [send EXCEPT
                 !.notices = o.notices,
                 !.pc = IF o.err # "none" THEN "send error" ELSE "media"]
  /\ elsewhere

\* the script's 'Sending compressed video' notice on a retry
AnnounceAgain ==
  /\ send.pc = "announce again"
  /\ \E o \in sendNotice(NoticeSending) :
       /\ noticed(o)
       /\ send' = [send EXCEPT
            !.notices = o.notices,
            !.pc = IF o.err # "none" THEN "send error" ELSE "media"]
  /\ elsewhere

\* existsSync, the session check, MessageMedia.fromFilePath, then the media
\* send of this retryCount
MediaSend ==
  /\ send.pc = "media"
  /\ \E prepared \in BOOLEAN, sent \in BOOLEAN :
       IF ~prepared
       THEN send' = [send EXCEPT !.pc = "send error", !.err = ErrPrepare]
       ELSE send' = [send EXCEPT
              !.attempts = Append(@, [kind |-> mediaKind(send.retryCount),
                                      ok |-> sent]),
              !.success = sent,
              !.pc = IF sent THEN "loop" ELSE "send error",
              !.err = IF sent THEN send.err ELSE ErrSend]
  /\ notNoticed
  /\ elsewhere

\* catch (sendError): count it, give up after maxRetries, else go round
SendError ==
  /\ send.pc = "send error"
  /\ send' = [send EXCEPT
       !.retryCount = @ + 1,
       !.pc = IF send.retryCount + 1 >= maxRetries THEN "catch" ELSE "loop"]
  /\ notNoticed
  /\ elsewhere

\* the outer catch: the failure notice, outside any try
OuterCatch ==
  /\ send.pc = "catch"
  /\ \E o \in sendFailedNotice :
       /\ noticed(o)
       /\ send' = [send EXCEPT
            !.notices = o.notices,
            !.pc = IF o.err = "none" THEN "fallback" ELSE "done",
            !.raised = o.err # "none"]
  /\ elsewhere

\* the fallback notice, inside its own try/catch
Fallback ==
  /\ send.pc = "fallback"
  /\ IF ~send.statOk
     THEN /\ send' = [send EXCEPT !.pc = "done"]
          /\ notNoticed
     ELSE \E o \in sendNotice(NoticeFallback) :
            /\ noticed(o)
            /\ send' = [send EXCEPT !.notices = o.notices, !.pc = "done"]
  /\ elsewhere

\* the client's events while the call is awaiting
ClientEvent ==
  /\ send.pc \notin {"idle", "done"}
  /\ \/ /\ whatsappReady' = onReady(messageQueue, handed).whatsappReady
        /\ handed' = onReady(messageQueue, handed).handed
        /\ messageQueue' = onReady(messageQueue, handed).messageQueue
        /\ waEvent' = [name |-> "ready", err |-> "none",
                       flushed |-> Len(messageQueue)]
     \/ /\ whatsappReady' = FALSE
        /\ waEvent' = [name |-> "disconnected", err |-> "none", flushed |-> 0]
        /\ UNCHANGED <<messageQueue, handed>>
  /\ UNCHANGED <<passed, send>>
  /\ elsewhere

NextSend ==
  \/ SendVideoViaWhatsApp
  \/ TooBig
  \/ LoopTest
  \/ Announce
  \/ AnnounceAgain
  \/ MediaSend
  \/ SendError
  \/ OuterCatch
  \/ Fallback
  \/ ClientEvent

SpecSend == InitSend /\ [][NextSend]_vars

-----------------------------------------------------------------------------
(* listenForTelegramEpisodeRequests: every message in the right format     *)
(* starts a run of its own, and the handler does not wait for the runs     *)
(* started before                                                          *)

MaxJobs == 2             \* requests the listener receives

\* the output directory the listener gives every run
ListenerOut == "/Users/shacharratzabi/Videos/"

\* messages of the chat: two episodes of a show, and one that the pattern
\* does not match
ListenerMessages ==
  {[matches |-> TRUE, show |-> <<"r">>, season |-> 1, episode |-> e] :
     e \in {2, 3}}
  \cup {[matches |-> FALSE, show |-> <<>>, season |-> 0, episode |-> 0]}

\* path.join(outputDir, episodeName)
episodeFolder(out, show, season, episode) ==
  [out |-> out, name |-> episodeName(show, season, episode)]

InitListen ==
  /\ ListenQuiet
  /\ CliQuiet
  /\ StageQuiet
  /\ UtilQuiet
  /\ SendQuiet
  /\ WaQuiet
  /\ FlowQuiet
  /\ RankQuiet
  /\ SimQuiet
  /\ MatchQuiet
  /\ RunQuiet

\* bot.on('message'): a new EpisodeDownloader and its run(), which begins
\* with setupDirectories; nothing looks at the runs in flight
OnMessage ==
  /\ Len(jobs) < MaxJobs
  /\ \E msg \in ListenerMessages :
       /\ msg.matches
       /\ jobs' = Append(jobs,
            [show |-> msg.show, season |-> msg.season, episode |-> msg.episode,
             folder |-> episodeFolder(ListenerOut, msg.show, msg.season,
                                      msg.episode),
             stage |-> stagesOf("class")[1], stageNo |-> 1, err |-> "none"])
  /\ UNCHANGED <<sendVars, waVars, flowVars, rankVars, simVars, matchVars,
                 runVars, cliVars, stageVars, utilVars>>

\* the stage a run is in comes to its end: the next stage begins, or the
\* run ends after its last stage or with the error the stage raised
StageEnds ==
  /\ \E i \in 1..Len(jobs) :
       /\ jobs[i].stage # "ended"
       /\ \E e \in {"none"} \cup errorsOf(jobs[i].stage) :
            jobs' = [jobs EXCEPT ![i] =
              IF e # "none" \/ jobs[i].stageNo = Len(stagesOf("class"))
              THEN [@ EXCEPT !.stage = "ended", !.err = e]
              ELSE [@ EXCEPT !.stage = stagesOf("class")[jobs[i].stageNo + 1],
                             !.stageNo = jobs[i].stageNo + 1]]
  /\ UNCHANGED <<sendVars, waVars, flowVars, rankVars, simVars, matchVars,
                 runVars, cliVars, stageVars, utilVars>>

NextListen == OnMessage \/ StageEnds

SpecListen == InitListen /\ [][NextListen]_vars

-----------------------------------------------------------------------------
(* The command line of the class-based program: --min-seeds through the    *)
(* option parser and the constructor to the seeder filter of findMagnet    *)

MaxCliResults == 2       \* longest apibay result list explored here

\* the values given as --min-seeds <n>
OptionValues == {0, 7, 10, 25, 30}

CliResponses == {r \in Responses : Len(r.items) <= MaxCliResults}

RECURSIVE digitsValueRadix(_, _)
digitsValueRadix(ds, radix) ==
  IF Len(ds) = 0 THEN 0
  ELSE radix * digitsValueRadix(SubSeq(ds, 1, Len(ds) - 1), radix)
       + DigitVal(ds[Len(ds)])

\* parseInt(s, radix) for a radix from 10 to 36 and a string of decimal
\* digits: every digit is a digit of that radix
parseIntRadix(s, radix) ==
  LET ds == leadingDigits(skipWhite(s))
  IN IF Len(ds) = 0 THEN NaN ELSE Num(digitsValueRadix(ds, radix))

\* .option('--min-seeds <n>', 'Minimum seeders', parseInt, 20): the option
\* parser calls the function with the argument and the previous value of
\* the option, here the default, which parseInt takes as its radix
optionMinSeeds(given, n) ==
  IF given THEN parseIntRadix(natToString(n), DefaultMinSeeds)
  ELSE Num(DefaultMinSeeds)

\* minSeeds: number = 20; if (minSeeds) this.minSeeds = minSeeds
constructedMinSeeds(option) ==
  IF ~option.nan /\ option.v # 0 THEN option.v ELSE DefaultMinSeeds

InitCli ==
  /\ response \in CliResponses
  /\ minSeeds = DefaultMinSeeds
  /\ rank = RankIdle
  /\ CliQuiet
  /\ StageQuiet
  /\ UtilQuiet
  /\ ListenQuiet
  /\ SendQuiet
  /\ WaQuiet
  /\ FlowQuiet
  /\ SimQuiet
  /\ MatchQuiet
  /\ RunQuiet

\* program.option(...).parse()
ParseOptions ==
  /\ cli.pc = "idle"
  /\ \E given \in BOOLEAN, n \in OptionValues :
       /\ ~given => n = 0
       /\ cli' = [pc |-> "parsed", given |-> given, n |-> n,
                  option |-> optionMinSeeds(given, n)]
  /\ UNCHANGED <<rankVars, simVars, matchVars, runVars, waVars, flowVars,
                 sendVars, listenVars, stageVars, utilVars>>

\* new EpisodeDownloader(show, season, episode, out, minSeeds)
Construct ==
  /\ cli.pc = "parsed"
  /\ minSeeds' = constructedMinSeeds(cli.option)
  /\ cli' = [cli EXCEPT !.pc = "constructed"]
  /\ UNCHANGED <<response, rank, simVars, matchVars, runVars, waVars, flowVars,
                 sendVars, listenVars, stageVars, utilVars>>

\* handleVideoDownload on an empty folder: findMagnet(show, epCode,
\* this.minSeeds)
CliFindMagnet ==
  /\ cli.pc = "constructed"
  /\ rank' = findMagnet(response, minSeeds)
  /\ cli' = [cli EXCEPT !.pc = "done"]
  /\ UNCHANGED <<response, minSeeds, simVars, matchVars, runVars, waVars,
                 flowVars, sendVars, listenVars, stageVars,
                 utilVars>>

NextCli == ParseOptions \/ Construct \/ CliFindMagnet

SpecCli == InitCli /\ [][NextCli]_vars

-----------------------------------------------------------------------------
(* One stage with a progress reporter: downloadTorrent (a timer callback   *)
(* every second), muxSubtitles and compressForWhatsapp (a handler of       *)
(* ffmpeg's stderr).  Progress is Math.floor(... * 100), a whole percent.  *)

notifyStep == 20
COMPRESSION_THRESHOLD_MB == 110
WhatsAppLimitMB == 95

\* the percentages the torrent can be at
TorrentPercents == {0, 20, 50, 100}

\* the percentages ffmpeg's time= lines can give: the duration ffprobe
\* reported can be shorter than what ffmpeg encodes
FfmpegPercents == {0, 20, 50, 100, 120}

\* sizes of the input of compressForWhatsapp and of ffmpeg's output, in MB
InputSizes == {90, 100, 110, 111}
CompressedSizes == {40, 100}

\* sizeMB > maxSizeMB
isFileLargerThan(sizeMB, maxSizeMB) == sizeMB > maxSizeMB

needsCompression(sizeMB) == isFileLargerThan(sizeMB, COMPRESSION_THRESHOLD_MB)

\* sendVideoViaWhatsApp refuses the file: isFileLargerThan(compressedPath, 95)
tooBigForWhatsApp(sizeMB) == isFileLargerThan(sizeMB, WhatsAppLimitMB)

\* a reporter that sends the next value and forgets that it did
reportAgain(percentInt, last) ==
  IF percentInt >= last + notifyStep
  THEN [lastPercentNotified |-> last, sends |-> last + notifyStep <= 100,
        value |-> last + notifyStep]
  ELSE [lastPercentNotified |-> last, sends |-> FALSE, value |-> last]

\* if (percentInt >= lastPercentNotified + notifyStep) {
\*   lastPercentNotified += notifyStep;
\*   if (lastPercentNotified <= 100) await sendMessage(...) }
report(percentInt, last) ==
  IF percentInt >= last + notifyStep
  THEN [lastPercentNotified |-> last + notifyStep,
        sends |-> last + notifyStep <= 100, value |-> last + notifyStep]
  ELSE [lastPercentNotified |-> last, sends |-> FALSE, value |-> last]

\* the stage after a callback that saw percentInt: the call of sendMessage
\* is made before the callback is suspended at its await
reported(st, percentInt) ==
  LET r == report(percentInt, st.lastPercentNotified)
  IN [st EXCEPT
        !.lastPercentNotified = r.lastPercentNotified,
        !.notified = IF r.sends
                     THEN Append(@, [value |-> r.value, seen |-> percentInt])
                     ELSE @,
        !.inflight = IF r.sends THEN @ + 1 ELSE @]

\* a rejection nobody handles: the process ends, or it is only reported
afterUnhandled(st) ==
  {[st EXCEPT !.blame = "unhandled rejection", !.alive = a] : a \in BOOLEAN}

InitStage ==
  /\ StageQuiet
  /\ UtilQuiet
  /\ CliQuiet
  /\ ListenQuiet
  /\ SendQuiet
  /\ WaQuiet
  /\ FlowQuiet
  /\ RankQuiet
  /\ SimQuiet
  /\ MatchQuiet
  /\ RunQuiet

stageElsewhere ==
  UNCHANGED <<rankVars, simVars, matchVars, runVars, waVars, flowVars,
              sendVars, listenVars, cliVars, utilVars>>

\* downloadTorrent up to its first await: the torrent is added and, without
\* a video file in it, the promise is rejected
BeginDownload ==
  /\ task.pc = "idle"
  /\ \E hasVideo \in BOOLEAN :
       task' = IF hasVideo
                THEN [StageIdle EXCEPT !.kind = "download", !.pc = "starting"]
                ELSE [StageIdle EXCEPT !.kind = "download", !.pc = "ended",
                                       !.settled = "rejected"]
  /\ stageElsewhere

\* await sendMessage(downloadTorrentMessage): after it the timer is set and
\* the 'done' handler registered; if it rejects, neither happens
StartingNotice ==
  /\ task.pc = "starting"
  /\ task.alive
  /\ \E ok \in BOOLEAN :
       IF ok
       THEN task' = [task EXCEPT !.pc = "running", !.timerOn = TRUE,
                                   !.handlerOn = TRUE]
       ELSE task' \in {[st EXCEPT !.pc = "ended",
                                   !.blame = "notification failed"] :
                          st \in afterUnhandled(task)}
  /\ stageElsewhere

\* the torrent downloads
Advance ==
  /\ task.kind = "download"
  /\ task.pc \in {"starting", "running"}
  /\ task.alive
  /\ ~task.doneFired
  /\ \E p \in TorrentPercents :
       /\ p > task.progress
       /\ task' = [task EXCEPT !.progress = p]
  /\ stageElsewhere

\* the torrent's 'done' event: the handler, if registered, stops the timer
\* and resolves
TorrentDone ==
  /\ task.kind = "download"
  /\ task.pc \in {"starting", "running"}
  /\ task.alive
  /\ ~task.doneFired
  /\ task.progress = 100
  /\ task' = IF task.handlerOn
              THEN [task EXCEPT !.doneFired = TRUE, !.timerOn = FALSE,
                                 !.settled = "resolved", !.pc = "ended"]
              ELSE [task EXCEPT !.doneFired = TRUE]
  /\ stageElsewhere

\* one call of the setInterval callback
Tick ==
  /\ task.kind = "download"
  /\ task.timerOn
  /\ task.alive
  /\ task' = reported(task, task.progress)
  /\ stageElsewhere

\* muxSubtitles: ffprobe is awaited (totalSeconds stays 0 if it fails),
\* then ffmpeg is started
BeginMux ==
  /\ task.pc = "idle"
  /\ \E known \in BOOLEAN :
       task' = [StageIdle EXCEPT !.kind = "mux", !.pc = "running",
                                  !.totalKnown = known, !.timerOn = TRUE]
  /\ stageElsewhere

\* compressForWhatsapp: a small input is copied after a notice, a large
\* one compressed by ffmpeg while ffprobe is still running
BeginCompress ==
  /\ task.pc = "idle"
  /\ \E size \in InputSizes :
       task' = IF ~needsCompression(size)
                THEN [StageIdle EXCEPT !.kind = "compress", !.sizeMB = size,
                                       !.pc = "skip notice"]
                ELSE [StageIdle EXCEPT !.kind = "compress", !.sizeMB = size,
                                       !.pc = "running", !.timerOn = TRUE]
  /\ stageElsewhere

\* await sendMessage('... skipping compression'), then cp input output
SkipNotice ==
  /\ task.pc = "skip notice"
  /\ \E ok \in BOOLEAN :
       task' = IF ok
                THEN [task EXCEPT !.pc = "ended", !.settled = "resolved",
                                   !.copied = TRUE, !.outSize = task.sizeMB]
                ELSE [task EXCEPT !.pc = "ended", !.settled = "rejected",
                                   !.blame = "notification failed"]
  /\ stageElsewhere

\* the callback of compressForWhatsapp's ffprobe
Probe ==
  /\ task.kind = "compress"
  /\ task.pc = "running"
  /\ task.alive
  /\ ~task.totalKnown
  /\ task' = [task EXCEPT !.totalKnown = TRUE]
  /\ stageElsewhere

\* a chunk of ffmpeg's stderr with a time= line
StderrData ==
  /\ task.kind \in {"mux", "compress"}
  /\ task.pc = "running"
  /\ task.alive
  /\ \E p \in FfmpegPercents :
       /\ p >= task.progress
       /\ task' = IF task.totalKnown
                   THEN reported([task EXCEPT !.progress = p], p)
                   ELSE [task EXCEPT !.progress = p]
  /\ stageElsewhere

\* ffmpeg's 'close' event
Close ==
  /\ task.kind \in {"mux", "compress"}
  /\ task.pc = "running"
  /\ task.alive
  /\ \E code \in {0, 1}, size \in CompressedSizes :
       task' = IF code = 0
                THEN [task EXCEPT !.pc = "ended", !.timerOn = FALSE,
                                   !.settled = "resolved", !.outSize = size]
                ELSE [task EXCEPT !.pc = "ended", !.timerOn = FALSE,
                                   !.settled = "rejected"]
  /\ stageElsewhere

\* a progress notification comes back: the callback that awaits it ends,
\* with a rejection nobody handles if the notification failed
SendSettles ==
  /\ task.inflight > 0
  /\ task.alive
  /\ \E ok \in BOOLEAN :
       IF ok
       THEN task' = [task EXCEPT !.inflight = @ - 1]
       ELSE task' \in afterUnhandled([task EXCEPT !.inflight = @ - 1])
  /\ stageElsewhere

NextStage ==
  \/ BeginDownload
  \/ StartingNotice
  \/ Advance
  \/ TorrentDone
  \/ Tick
  \/ BeginMux
  \/ BeginCompress
  \/ SkipNotice
  \/ Probe
  \/ StderrData
  \/ Close
  \/ SendSettles

SpecStage == InitStage /\ [][NextStage]_vars

-----------------------------------------------------------------------------
(* scoreTorrent alone: one call of the exported function on one torrent    *)

\* the values of the seeders field explored: absent, numbers, and strings
\* that are empty, numeric, numeric at the start only, or not numeric
SeedersValues ==
  {Undef, JNum(0), JNum(5), JNum(2000000),
   JStr(<<>>), JStr(<<"0">>), JStr(<<"2", "5">>), JStr(<<"9", "9", "9">>),
   JStr(<<" ", "7">>), JStr(<<"1", "2", "a">>), JStr(<<"x">>),
   JStr(<<"a", "1">>), JStr(<<"-">>)}

ScoreInputs ==
  {[name |-> n, seeders |-> sd, info_hash |-> 1] :
     n \in {Name1080, Name720, Name480, NameBoth, NamePlain},
     sd \in SeedersValues}

InitScore ==
  /\ \E t \in ScoreInputs :
       response = [ok |-> TRUE, isArray |-> TRUE, items |-> <<t>>]
  /\ minSeeds = DefaultMinSeeds
  /\ rank = RankIdle
  /\ SimQuiet
  /\ MatchQuiet
  /\ RunQuiet
  /\ WaQuiet
  /\ FlowQuiet
  /\ SendQuiet
  /\ ListenQuiet
  /\ CliQuiet
  /\ StageQuiet
  /\ UtilQuiet

\* scoreTorrent(torrent, searchQuery), its result kept with the torrent
ScoreTorrent ==
  /\ rank.op = "none"
  /\ rank' = [RankIdle EXCEPT !.op = "scoreTorrent",
                              !.ranked = withScores(response.items)]
  /\ UNCHANGED <<response, minSeeds, simVars, matchVars, runVars, waVars, flowVars,
                 sendVars, listenVars, cliVars, stageVars,
                 utilVars>>

NextScore == ScoreTorrent

SpecScore == InitScore /\ [][NextScore]_vars

-----------------------------------------------------------------------------
(* translateSRTtoHebrew alone: one call on a source of numbered blocks.    *)
(* blocks is what text.split(/\n\n+/) returns, which is never empty.       *)

chunkSize == 100
MaxFullChunks == 2

BlockCounts ==
  {n \in {k * chunkSize + d : k \in 0..MaxFullChunks, d \in {-1, 0, 1, 50}} :
     n > 0}

\* Array.prototype.slice(from, to) for 0 <= from <= to, indices from 0
slice(s, from, to) ==
  SubSeq(s, from + 1, IF to <= Len(s) THEN to ELSE Len(s))

\* a grouping that keeps the full chunks only
RECURSIVE fullChunksFrom(_, _)
fullChunksFrom(blocks, i) ==
  IF i + chunkSize > Len(blocks) THEN <<>>
  ELSE <<slice(blocks, i, i + chunkSize)>> \o fullChunksFrom(blocks, i + chunkSize)

\* for (let i = 0; i < blocks.length; i += chunkSize)
\*   chunks.push(blocks.slice(i, i + chunkSize));
RECURSIVE chunksFrom(_, _)
chunksFrom(blocks, i) ==
  IF i >= Len(blocks) THEN <<>>
  ELSE <<slice(blocks, i, i + chunkSize)>> \o chunksFrom(blocks, i + chunkSize)

\* the answer of the translation service to a chunk: its translation, kept
\* as the blocks it translates, or no content
Answers(chunk) == {[content |-> TRUE, of |-> chunk],
                   [content |-> FALSE, of |-> <<>>]}

InitTranslate ==
  /\ \E n \in BlockCounts :
       translation = [TranslationIdle EXCEPT !.blocks = [b \in 1..n |-> b]]
  /\ duration = DurationIdle
  /\ StageQuiet
  /\ CliQuiet
  /\ ListenQuiet
  /\ SendQuiet
  /\ WaQuiet
  /\ FlowQuiet
  /\ RankQuiet
  /\ SimQuiet
  /\ MatchQuiet
  /\ RunQuiet

translateElsewhere ==
  UNCHANGED <<rankVars, simVars, matchVars, runVars, waVars, flowVars,
              sendVars, listenVars, cliVars, stageVars, duration>>

\* up to the loop: the source is read and split, the chunks are built and
\* the destination is written empty; a source that cannot be read ends it
TranslateStart ==
  /\ translation.pc = "idle"
  /\ \E readable \in BOOLEAN :
       translation' =
         IF readable
         THEN [translation EXCEPT
                 !.pc = "loop",
                 !.chunks = chunksFrom(translation.blocks, 0),
                 !.writes = <<[op |-> "writeFile", text |-> <<>>]>>]
         ELSE [translation EXCEPT !.pc = "ended", !.err = ErrNoEntry]
  /\ translateElsewhere

\* openai.chat.completions.create for chunks[i]: it answers or throws
TranslateRequest ==
  /\ translation.pc = "loop"
  /\ translation.i < Len(translation.chunks)
  /\ LET chunk == translation.chunks[translation.i + 1]
         asked == [translation EXCEPT !.requests = Append(@, chunk)]
     IN \/ translation' = [asked EXCEPT !.pc = "ended", !.err = ErrTranslate]
        \/ \E a \in Answers(chunk) :
             translation' = [asked EXCEPT !.pc = "append",
                                          !.writes = Append(@, [op |-> "pending",
                                                                text |-> a.of])]
  /\ translateElsewhere

\* fs.appendFile(destPath, translated + '\n\n') and the end of the iteration
TranslateAppend ==
  /\ translation.pc = "append"
  /\ translation' =
       [translation EXCEPT
          !.pc = "loop",
          !.i = @ + 1,
          !.writes = [@ EXCEPT ![Len(@)] = [op |-> "appendFile", text |-> @.text]]]
  /\ translateElsewhere

\* the loop is over
TranslateEnd ==
  /\ translation.pc = "loop"
  /\ translation.i = Len(translation.chunks)
  /\ translation' = [translation EXCEPT !.pc = "ended"]
  /\ translateElsewhere

NextTranslate ==
  \/ TranslateStart
  \/ TranslateRequest
  \/ TranslateAppend
  \/ TranslateEnd

SpecTranslate == InitTranslate /\ [][NextTranslate]_vars

-----------------------------------------------------------------------------
(* formatDuration alone: one call on a whole number of seconds             *)

SecondsPerDay == 86400
SecondsPerHour == 3600
SecondsPerMinute == 60

\* the inputs explored: every combination of none, one and the most of
\* each component, and negative numbers
DurationInputs ==
  {d * SecondsPerDay + h * SecondsPerHour + m * SecondsPerMinute + sec :
     d \in {0, 1, 12}, h \in {0, 1, 23}, m \in {0, 1, 59}, sec \in {0, 1, 59}}
  \cup {0 - 1, 0 - 60, 0 - SecondsPerDay}

\* a component that is printed whatever its value
partAlways(value, unit) == natToString(value) \o <<unit, " ">>

\* if (days) result += `${days}d `
part(value, unit) ==
  IF value # 0 THEN natToString(value) \o <<unit, " ">> ELSE <<>>

\* String.prototype.trim
RECURSIVE trimEnd(_)
trimEnd(s) ==
  IF Len(s) > 0 /\ IsWhite(s[Len(s)]) THEN trimEnd(SubSeq(s, 1, Len(s) - 1))
  ELSE s

trim(s) == trimEnd(skipWhite(s))

\* Math.max(0, Math.round(Number(seconds))) on a whole number, then the
\* divisions and remainders, and the components put together
formatDuration(seconds) ==
  LET total == IF seconds > 0 THEN seconds ELSE 0
      days == total \div SecondsPerDay
      afterDays == total % SecondsPerDay
      hours == afterDays \div SecondsPerHour
      afterHours == afterDays % SecondsPerHour
      minutes == afterHours \div SecondsPerMinute
      rest == afterHours % SecondsPerMinute
  IN trim(part(days, "d") \o part(hours, "h") \o part(minutes, "m")
          \o natToString(rest) \o <<"s">>)

InitDuration ==
  /\ \E n \in DurationInputs : duration = [DurationIdle EXCEPT !.seconds = n]
  /\ translation = TranslationIdle
  /\ StageQuiet
  /\ CliQuiet
  /\ ListenQuiet
  /\ SendQuiet
  /\ WaQuiet
  /\ FlowQuiet
  /\ RankQuiet
  /\ SimQuiet
  /\ MatchQuiet
  /\ RunQuiet

FormatDuration ==
  /\ duration.pc = "idle"
  /\ duration' = [duration EXCEPT !.pc = "done",
                                  !.out = formatDuration(duration.seconds)]
  /\ UNCHANGED <<rankVars, simVars, matchVars, runVars, waVars, flowVars,
                 sendVars, listenVars, cliVars, stageVars, translation>>

NextDuration == FormatDuration

SpecDuration == InitDuration /\ [][NextDuration]_vars

-----------------------------------------------------------------------------
(* Claims about the ranker, checked under SpecRank                         *)

stripScore(l) ==
  [i \in 1..Len(l) |->
     [name |-> l[i].name, seeders |-> l[i].seeders, info_hash |-> l[i].info_hash]]

occurrences(l, x) == Cardinality({i \in 1..Len(l) : l[i] = x})

isPermutation(a, b) ==
  /\ Len(a) = Len(b)
  /\ \A x \in Range(a) \cup Range(b) : occurrences(a, x) = occurrences(b, x)

rankSucceeded == rank.op # "none" /\ rank.err = "none"

\* the quality tier as the claims word it: 1080p > 720p > 480p > none,
\* case-insensitive, the first match in that priority
claimTier(name) ==
  IF \E i \in 0..(Len(name) - 5) :
       toLowerCase(SubSeq(name, i + 1, i + 5)) = <<"1","0","8","0","p">> THEN 3
  ELSE IF \E i \in 0..(Len(name) - 4) :
       toLowerCase(SubSeq(name, i + 1, i + 4)) = <<"7","2","0","p">> THEN 2
  ELSE IF \E i \in 0..(Len(name) - 4) :
       toLowerCase(SubSeq(name, i + 1, i + 4)) = <<"4","8","0","p">> THEN 1
  ELSE 0

\* whether the candidate carries a seeder count (a number or a numeric
\* string), and that count
hasSeederCount(t) ==
  t.seeders.k = "num" \/ (t.seeders.k = "str" /\ ~parseInt(t.seeders.s).nan)

seederCount(t) ==
  IF t.seeders.k = "num" THEN t.seeders.n ELSE parseInt(t.seeders.s).v

\* C1: whenever findMagnet or findMagnets succeeds, the ranked list is a
\* permutation of the candidates that passed the seeder filter, in
\* non-increasing order of score, so the first element (the one findMagnet
\* builds its magnet from) has a score >= every other element's.
Thm_C1_RankedSortedPermutation ==
  rankSucceeded =>
    /\ isPermutation(stripScore(rank.ranked), rank.filtered)
    /\ \A i \in 1..Len(rank.ranked) :
         /\ ~rank.ranked[i].score.nan
         /\ rank.ranked[i].score = scoreTorrent(rank.ranked[i])
    /\ \A i, j \in 1..Len(rank.ranked) :
         i < j => rank.ranked[i].score.v >= rank.ranked[j].score.v
    /\ rank.op = "findMagnet" =>
         /\ rank.magnet.info_hash = rank.ranked[1].info_hash
         /\ \A i \in 1..Len(rank.ranked) :
              rank.ranked[1].score.v >= rank.ranked[i].score.v

\* a ranking of three candidates that the sort had to reorder
Wit_C1_Reordered ==
  /\ rankSucceeded
  /\ Len(rank.ranked) = 3
  /\ stripScore(rank.ranked) # rank.filtered
  /\ rank.ranked[1].score.v > rank.ranked[3].score.v

\* C2: when every filtered candidate has at most 999 seeders, the torrent
\* findMagnet selects has the highest quality tier present among the
\* filtered candidates and, within that tier, the greatest seeder count.
Thm_C2_TierThenSeeders ==
  (/\ rank.op = "findMagnet"
   /\ rank.err = "none"
   /\ \A i \in 1..Len(rank.filtered) : seederCount(rank.filtered[i]) <= 999) =>
    \E k \in 1..Len(rank.filtered) :
      LET top == rank.filtered[k]
      IN /\ rank.magnet = [info_hash |-> top.info_hash, dn |-> top.name]
         /\ \A i \in 1..Len(rank.filtered) :
              LET t == rank.filtered[i]
              IN /\ claimTier(top.name) >= claimTier(t.name)
                 /\ claimTier(top.name) = claimTier(t.name) =>
                      seederCount(top) >= seederCount(t)

\* a 1080p release with 25 seeders is selected over a 720p one with 999
Wit_C2_1080OverSeeded720 ==
  /\ rank.op = "findMagnet"
  /\ rank.err = "none"
  /\ \A i \in 1..Len(rank.filtered) : seederCount(rank.filtered[i]) <= 999
  /\ \E i, j \in 1..Len(rank.filtered) :
       /\ claimTier(rank.filtered[i].name) = 2
       /\ seederCount(rank.filtered[i]) = 999
       /\ claimTier(rank.filtered[j].name) = 3
       /\ seederCount(rank.filtered[j]) = 25
       /\ rank.magnet.info_hash = rank.filtered[j].info_hash

\* C3: 'No torrents found with enough seeders.' is raised exactly when the
\* index returned a non-empty list of which no candidate has seeders >=
\* minSeeds; 'No torrents found for this episode.' exactly when it returned
\* an empty or non-list result; in both cases nothing is ranked or selected.
Cex_C3_ErrorsExactlyWhen ==
  rank.op # "none" =>
    /\ (rank.err = ErrFewSeeders) <=>
         /\ response.ok /\ response.isArray /\ Len(response.items) > 0
         /\ \A i \in 1..Len(response.items) :
              ~(/\ hasSeederCount(response.items[i])
                /\ seederCount(response.items[i]) >= minSeeds)
    /\ (rank.err = ErrNoTorrents) <=>
         /\ response.ok
         /\ (~response.isArray \/ Len(response.items) = 0)
    /\ rank.err \in {ErrFewSeeders, ErrNoTorrents} =>
         rank.ranked = <<>> /\ rank.magnet = NoMagnet

-----------------------------------------------------------------------------
(* Claims about nameSimilarity, checked under SpecSim                      *)

\* the tokens as the claim words them: the maximal runs of characters of
\* [a-z0-9] in the lower-cased string
claimTokens(str) ==
  LET l == toLowerCase(str)
      alnum(i) == l[i] \in Range(LowerChars) \cup Range(DigitChars)
  IN { SubSeq(l, i, j) : <<i, j>> \in
         { p \in (1..Len(l)) \X (1..Len(l)) :
             /\ p[1] <= p[2]
             /\ \A k \in p[1]..p[2] : alnum(k)
             /\ (p[1] = 1 \/ ~alnum(p[1] - 1))
             /\ (p[2] = Len(l) \/ ~alnum(p[2] + 1)) } }

TokenS08E05 == <<"s", "0", "8", "e", "0", "5">>

\* C7: nameSimilarity(a, b) = |A \cap B| / max(|A|, |B|, 1) for the token
\* sets A and B of the two strings; it is 0 when either string has no
\* token; for the Rick and Morty example it is > 0 and s08e05 is one shared
\* token.
Thm_C7_NameSimilarityFormula ==
  sim.done =>
    LET A == claimTokens(simA)
        B == claimTokens(simB)
        m == IF Cardinality(A) >= Cardinality(B) THEN Cardinality(A)
             ELSE Cardinality(B)
    IN /\ sim.score.num = Cardinality(A \cap B)
       /\ sim.score.den = (IF m >= 1 THEN m ELSE 1)
       /\ (A = {} \/ B = {}) => sim.score.num = 0
       /\ (simA = RickTorrent /\ simB = RickSubtitle) =>
            /\ sim.score.num > 0
            /\ TokenS08E05 \in A \cap B
            /\ TokenS08E05 \in Range(clean(simA)) \cap Range(clean(simB))

\* the example pair has been compared: 4 shared tokens out of 5
Wit_C7_RickExample ==
  /\ sim.done
  /\ simA = RickTorrent
  /\ simB = RickSubtitle
  /\ sim.score = [num |-> 4, den |-> 5]

-----------------------------------------------------------------------------
(* Claims about the matcher, checked under SpecMatch                       *)

matched == match.op = "match" /\ match.err = "none"

hasName(torrent) == Len(torrent.name) > 0
hasFileName(subtitle) ==
  subtitle.fileName.k = "str" /\ Len(subtitle.fileName.s) > 0

\* the pairs (by position) in which both names are present
namedPairs ==
  { p \in (1..Len(match.torrents)) \X (1..Len(match.subtitles)) :
      hasName(match.torrents[p[1]]) /\ hasFileName(match.subtitles[p[2]]) }

\* the similarity of a named pair as the claims define it, over claimTokens
claimSimilarity(p) ==
  LET A == claimTokens(match.torrents[p[1]].name)
      B == claimTokens(match.subtitles[p[2]].fileName.s)
      m == IF Cardinality(A) >= Cardinality(B) THEN Cardinality(A)
           ELSE Cardinality(B)
  IN [num |-> Cardinality(A \cap B), den |-> IF m >= 1 THEN m ELSE 1]

sharingPairs == { p \in namedPairs : claimSimilarity(p).num > 0 }

isReturned(p) ==
  /\ match.video = match.torrents[p[1]]
  /\ match.subtitle = match.subtitles[p[2]]

\* iteration order: torrents outermost, subtitles innermost
iteratedBefore(p, q) == p[1] < q[1] \/ (p[1] = q[1] /\ p[2] <= q[2])

\* C4: the pair returned has maximal nameSimilarity among the pairs in
\* which both the torrent name and the subtitle fileName are present; when
\* exactly one pair shares a token, that pair is the one returned.
Thm_C4_MaximalPair ==
  (matched /\ namedPairs # {}) =>
    /\ \E p \in namedPairs :
         /\ isReturned(p)
         /\ ratioEQ(match.bestScore, claimSimilarity(p))
         /\ \A q \in namedPairs :
              ~ratioGT(claimSimilarity(q), claimSimilarity(p))
    /\ \A p \in namedPairs : sharingPairs = {p} => isReturned(p)

\* two torrents, two subtitles, exactly one pair shares a token, and it is
\* not the first pair
Wit_C4_OnlySharingPair ==
  /\ matched
  /\ Len(match.torrents) = 2 /\ Len(match.subtitles) = 2
  /\ Cardinality(namedPairs) = 4
  /\ \E p \in namedPairs :
       p # <<1, 1>> /\ sharingPairs = {p} /\ isReturned(p)

\* C5 as stated: when no pair shares any token the pair returned is
\* (torrents[0], subtitles[0]) and the score reported is 0.
Cex_C5_FirstPairScoreZero ==
  (matched /\ sharingPairs = {}) =>
    /\ isReturned(<<1, 1>>)
    /\ match.bestScore.num = 0

\* C5 as amended: when no pair shares any token, the pair returned is the
\* first pair in iteration order in which both names are present, with
\* score 0 (so it is (torrents[0], subtitles[0]) when those two have
\* names); when no pair has both names, (torrents[0], subtitles[0]) is
\* returned with score -1.
Thm_C5_FirstNamedPairScoreZero ==
  (matched /\ sharingPairs = {}) =>
    IF namedPairs # {}
    THEN /\ \E p \in namedPairs :
              /\ \A q \in namedPairs : iteratedBefore(p, q)
              /\ isReturned(p)
         /\ match.bestScore.num = 0
         /\ <<1, 1>> \in namedPairs => isReturned(<<1, 1>>)
    ELSE /\ isReturned(<<1, 1>>)
         /\ match.bestScore = MinusOne

\* no token is shared, the first torrent and the first subtitle are named
\* and are returned with score 0, a subtitle without fileName being present
Wit_C5_ZeroOverlap ==
  /\ matched
  /\ sharingPairs = {}
  /\ Len(match.torrents) = 2 /\ Len(match.subtitles) = 2
  /\ match.torrents[1] # match.torrents[2]
  /\ <<1, 1>> \in namedPairs
  /\ ~hasFileName(match.subtitles[2])
  /\ isReturned(<<1, 1>>)
  /\ match.bestScore.num = 0

\* C6: a subtitle candidate without fileName is never the subtitle of the
\* pair returned, and the only subtitle-related failure is that both
\* searches returned nothing.
Cex_C6_NamelessNeverReturned ==
  /\ matched => hasFileName(match.subtitle)
  /\ (match.op = "match" /\ match.err = ErrNoSubtitles) =>
       /\ searchSubtitlesAll(heData) = <<>>
       /\ searchSubtitlesAll(enData) = <<>>

\* the score handleVideoAndSubtitleMatching gives a named pair
pairScore(p) ==
  nameSimilarity(match.torrents[p[1]].name, match.subtitles[p[2]].fileName.s)

\* the named pairs no other named pair is more similar than
mostSimilarPairs ==
  { p \in namedPairs : \A q \in namedPairs : ~ratioGT(pairScore(q), pairScore(p)) }

\* C29: when several pairs attain the maximal similarity, the pair returned
\* is the first of them in iteration order (torrents outermost, subtitles
\* innermost), so among equally similar pairs the torrent ranked higher is
\* the one chosen.
Thm_C29_FirstOfTheMostSimilar ==
  (matched /\ namedPairs # {}) =>
    \E p \in mostSimilarPairs :
      /\ \A q \in mostSimilarPairs : iteratedBefore(p, q)
      /\ isReturned(p)
      /\ \A q \in mostSimilarPairs : p[1] <= q[1]

\* two pairs of different torrents share tokens and are equally similar;
\* the one of the first torrent is returned and the other is not
Wit_C29_TieBetweenTorrents ==
  /\ matched
  /\ \E p \in mostSimilarPairs, q \in mostSimilarPairs :
       /\ p[1] < q[1]
       /\ pairScore(p).num > 0
       /\ isReturned(p)
       /\ ~isReturned(q)

-----------------------------------------------------------------------------
(* Claims about resuming on an episode folder, checked under SpecRun       *)

called(name) == \E i \in 1..Len(calls) : calls[i] = name

subtitleWork ==
  {"opensubsLogin", "searchSubtitles he", "searchSubtitles en",
   "downloadSubtitle", "translateSRTtoHebrew"}

\* the staged pipeline alone keeps the source video and does not download
StagedKeepsSource ==
  (pipeline = "staged" /\ run.sources # {}) =>
    /\ ~called("downloadTorrent")
    /\ run.videoPath # NoPath => run.videoPath \in run.sources

\* C8: when the folder holds a validly named source video at the start of
\* a run (video extension, neither '.hebsub.' nor '.whatsapp.' in the name),
\* the run never calls downloadTorrent and its video path is that existing
\* source video.
Cex_C8_ExistingSourceIsUsed ==
  run.sources # {} =>
    /\ ~called("downloadTorrent")
    /\ run.videoPath # NoPath => run.videoPath \in run.sources

\* C9: once handleSubtitles has completed in an earlier run, handleSubtitles
\* of a later run on the same folder does no login, search, download or
\* translation and returns the path of that same file.
Cex_C9_SubtitleStageResumes ==
  (pipeline = "staged" /\ run.earlierSubtitle # NoPath) =>
    /\ \A c \in subtitleWork : ~called(c)
    /\ run.subtitlePath # NoPath => run.subtitlePath = run.earlierSubtitle

\* handleMuxing skipped muxSubtitles in the current run
muxSkipped ==
  run.stage = "ended" /\ run.outputVideo # NoPath /\ ~called("muxSubtitles")

\* handleSubtitles took an existing file as the Hebrew subtitle
subtitleSkipped ==
  /\ pipeline = "staged"
  /\ run.subtitlePath # NoPath
  /\ \A c \in subtitleWork : ~called(c)

\* a skipped mux never rests on the leftover of a failed ffmpeg
MuxLeftoverNotAccepted == muxSkipped => folder[run.outputVideo].whole

\* a skipped subtitle stage never rests on a partly translated file
PartialTranslationNotAccepted ==
  subtitleSkipped => folder[run.subtitlePath].whole

\* C10: the '<video name>.hebsub.mp4' left by an ffmpeg that exited non-zero
\* is not taken as a completed mux by a later run (muxSubtitles is called
\* again), and a Hebrew subtitle file left by a translation that failed
\* part-way is not taken as an existing subtitle by a later run.
Cex_C10_PartialOutputsNotAccepted ==
  /\ muxSkipped => folder[run.outputVideo].whole
  /\ subtitleSkipped => folder[run.subtitlePath].whole

-----------------------------------------------------------------------------
(* Claims about the control flow of a run, checked under SpecFlow          *)

flowFailed == flow.err # "none"
flowEnded == flow.pc = "ended"

noticesOf(kind) ==
  {i \in 1..Len(flow.notices) : flow.notices[i].kind = kind}

noticesCarrying(text) ==
  {i \in 1..Len(flow.notices) : flow.notices[i].text = text}

failedStage == stagesOf(program)[flow.failedAt]

\* C11 as stated: once a stage has raised, no later stage is started, and
\* when the run has ended exactly one failure notification carrying the
\* error message has been attempted.
Cex_C11_OneFailureNotification ==
  flowFailed =>
    /\ Len(flow.started) = flow.failedAt
    /\ flowEnded => Cardinality(noticesCarrying(flow.err)) = 1

\* C11: once a stage has raised, no later stage of the run is started and
\* the catch block is reached; when sendMessage has a channel (Telegram, or
\* WhatsApp with a number configured) the run ends with exactly one
\* top-level notification, carrying the message of the error that reached
\* the catch block and attempted last; a failed compression is reported
\* once more from inside the stage before that; without a channel no
\* notification is attempted.
Thm_C11_AbortAndNotify ==
  flowFailed =>
    /\ Len(flow.started) = flow.failedAt
    /\ flow.pc \in {"catch", "finally", "ended"}
    /\ flowEnded =>
         IF sendsAtAll(program, flow.tunnel, flow.myNumber)
         THEN /\ noticesOf("top") = {Len(flow.notices)}
              /\ flow.notices[Len(flow.notices)].text = flow.err
              /\ Cardinality(noticesOf("compression")) <= 1
              /\ noticesOf("compression") # {} =>
                   failedStage = "handleCompression"
         ELSE flow.notices = <<>>

\* the compression of the function-style main fails: it is reported from
\* inside the stage and again by the catch block, and no later stage ran
Wit_C11_CompressionReportedTwice ==
  /\ program = "main"
  /\ flowEnded
  /\ failedStage = "handleCompression"
  /\ Len(flow.started) = flow.failedAt
  /\ Len(flow.notices) = 2
  /\ flow.notices[1].kind = "compression"
  /\ flow.notices[2].kind = "top"
  /\ Cardinality(noticesCarrying(flow.err)) = 2

\* the failed runs of the two scripts end the process with status 1 when
\* the failure notification did not throw
ScriptsExitOne ==
  (flowEnded /\ flowFailed /\ program # "class" /\ flow.exit # "1") =>
    /\ Len(flow.notices) > 0
    /\ sendsAtAll(program, flow.tunnel, flow.myNumber)

\* C12: a run that failed in some stage ends the process with exit status
\* 1, and a run whose stages all completed ends it with exit status 0.
Cex_C12_ExitStatus ==
  flowEnded =>
    /\ flowFailed => flow.exit = "1"
    /\ ~flowFailed => flow.exit = "0"

-----------------------------------------------------------------------------
(* Claims about the WhatsApp channel, checked under SpecQueue              *)

\* C13: the messages handed to the client followed by the queued ones are
\* exactly the messages passed to sendWhatsAppMessage, in the order they
\* were passed (none dropped, none both queued and sent, none sent twice);
\* a message passed while the client is not ready is appended to the queue
\* and not sent, also after 'disconnected' or 'auth_failure'; the 'ready'
\* handler hands every queued message to the client in queue order and
\* leaves the queue empty.
Thm_C13_QueueThenFlush ==
  /\ [](handed \o messageQueue = passed)
  /\ [](whatsappReady => messageQueue = <<>>)
  /\ [][(passed' # passed /\ ~whatsappReady) =>
          /\ messageQueue' = Append(messageQueue, passed'[Len(passed')])
          /\ handed' = handed]_vars
  /\ [][waEvent'.name = "ready" =>
          /\ handed' = handed \o messageQueue
          /\ messageQueue' = <<>>]_vars

\* two messages queued after a disconnection have just been handed to the
\* client by the 'ready' handler, behind a message sent directly before
Wit_C13_FlushedAfterDisconnect ==
  /\ waEvent.name = "ready"
  /\ waEvent.flushed = 2
  /\ Len(handed) = 3
  /\ handed = passed
  /\ messageQueue = <<>>

-----------------------------------------------------------------------------
(* Claims about sendVideoViaWhatsApp, checked under SpecSend               *)

mediaFailures == {i \in 1..Len(send.attempts) : ~send.attempts[i].ok}

\* at most maxRetries media sends, none after a successful one, and the
\* call always comes to an end (its step counter only grows, up to
\* maxRetries)
BoundedAttempts ==
  /\ Len(send.attempts) <= maxRetries
  /\ \A i \in 1..Len(send.attempts) :
       send.attempts[i].ok => i = Len(send.attempts)
  /\ send.retryCount <= maxRetries

\* C14 as stated: a call that has made its third failed media send ends
\* without raising.
Cex_C14_ReturnsWithoutRaising ==
  (send.pc = "done" /\ Cardinality(mediaFailures) = maxRetries) =>
     ~send.raised

-----------------------------------------------------------------------------
(* Claims about the wait for the WhatsApp client, checked under SpecFlow   *)

-----------------------------------------------------------------------------
(* Claims about the order of the subtitle searches, checked under SpecRun  *)

\* the places of a collaborator in the calls of the current run
callsOf(name) == {i \in 1..Len(calls) : calls[i] = name}

-----------------------------------------------------------------------------
(* Claims about the runs of the Telegram listener, checked under           *)
(* SpecListen                                                              *)

inFlight == {i \in 1..Len(jobs) : jobs[i].stage # "ended"}

\* C17: no two runs in flight work on the same episode folder, and so
\* none are in the same stage for the same episode at the same time.
Cex_C17_DisjointFolders ==
  \A i, j \in inFlight : i # j => jobs[i].folder # jobs[j].folder

\* runs in flight for different episodes have different folders
DifferentEpisodesApart ==
  \A i, j \in inFlight :
    (jobs[i].episode # jobs[j].episode) => jobs[i].folder # jobs[j].folder

-----------------------------------------------------------------------------
(* Claims about --min-seeds, checked under SpecCli                         *)

\* the threshold the command line asks for
askedThreshold == IF cli.given THEN cli.n ELSE DefaultMinSeeds

\* a candidate whose seeder count is at least n
hasSeeders(t, n) ==
  /\ t.seeders.k # "undef"
  /\ numGE(parseInt(String(t.seeders)), Num(n))

\* the threshold is 20 when the option is omitted, and the given value
\* when that is a single digit other than 0
SmallThresholds ==
  (cli.pc \in {"constructed", "done"} /\
   (~cli.given \/ (cli.n > 0 /\ cli.n < 10))) => minSeeds = askedThreshold

\* C18: for every n >= 0 given as --min-seeds the filter is applied with
\* threshold exactly n (a candidate is kept if and only if its seeder count
\* is >= n), and with threshold 20 exactly when the option is omitted.
Cex_C18_ThresholdIsOption ==
  (cli.pc = "done" /\ response.ok /\ response.isArray) =>
    /\ minSeeds = askedThreshold
    /\ rank.filtered =
         SelectSeq(response.items, LAMBDA t : hasSeeders(t, askedThreshold))

-----------------------------------------------------------------------------
(* Claims about the similarity policy, checked under SpecRank              *)

ExampleRelease ==
  <<"S", "0", "8", "E", "0", "5", ".", "1", "0", "8", "0", "p", ".",
    "W", "E", "B">>

\* the examples of the similarity: identical strings give 1, 'abc' against
\* 'xyz' gives 0, two empty strings give 0
similarityExamples ==
  /\ similarity(ExampleRelease, ExampleRelease).num =
       similarity(ExampleRelease, ExampleRelease).den
  /\ similarity(<<"a", "b", "c">>, <<"x", "y", "z">>).num = 0
  /\ similarity(<<"a", "b", "c">>, <<"x", "y", "z">>).den = Len(<<"x", "y", "z">>)
  /\ similarity(<<>>, <<>>).num = 0

\* the score of a ranked candidate is similarity * 1000 + seeders / 1000
scoredBySimilarity(t) ==
  LET sm == similarity(t.name, SearchQuery)
  IN /\ ~t.score.nan
     /\ t.score.v * sm.den =
          sm.num * TierWeight * SeederDivisor + seederCount(t) * sm.den

\* the score of a ranked candidate is tier * 1000 + seeders / 1000
scoredByQuality(t) ==
  /\ ~t.score.nan
  /\ t.score.v = claimTier(t.name) * TierWeight * SeederDivisor + seederCount(t)

-----------------------------------------------------------------------------
(* Claims about the matcher's empty lists, checked under SpecMatch         *)

\* the provider's answer holds no entry with a file id
noCandidate(data) == \A i \in 1..Len(data) : data[i].file_id = 0

\* C20: whenever the torrent list or the subtitle list (Hebrew, then
\* English) is empty, handleVideoAndSubtitleMatching ends in an error and
\* forms no pair; the pair it returns is made of a torrent of the torrent
\* list and a subtitle of the subtitle list, never of an undefined one.
Thm_C20_NoPairFromEmptyList ==
  match.op = "match" =>
    /\ (\/ findMagnets(response, minSeeds).err # "none"
        \/ (noCandidate(heData) /\ noCandidate(enData))) =>
         /\ match.err # "none"
         /\ match.video = NoTorrent
         /\ match.subtitle = NoSubtitle
    /\ match.err = "none" =>
         /\ match.video # NoTorrent
         /\ match.subtitle # NoSubtitle
         /\ \E i \in 1..Len(match.torrents) : match.video = match.torrents[i]
         /\ \E j \in 1..Len(match.subtitles) : match.subtitle = match.subtitles[j]

\* torrents were found, both subtitle searches came back without a
\* candidate, and the call ended with 'No subtitles found'
Wit_C20_NoSubtitlesError ==
  /\ match.op = "match"
  /\ Len(match.torrents) > 0
  /\ noCandidate(heData)
  /\ noCandidate(enData)
  /\ match.err = ErrNoSubtitles
  /\ match.video = NoTorrent

-----------------------------------------------------------------------------
(* Claims about the progress reporters, checked under SpecStage            *)

Thresholds == {20, 40, 60, 80, 100}

notifiedValues == {task.notified[i].value : i \in 1..Len(task.notified)}

\* C21: every threshold the progress of a stage has reached by the time
\* the stage ends has been notified.
Cex_C21_EveryThresholdNotified ==
  (task.pc = "ended" /\ task.settled = "resolved" /\ ~task.copied) =>
    \A t \in Thresholds : t <= task.progress => t \in notifiedValues

\* what the reporter does guarantee: nothing is notified out of turn, so
\* the values notified are the first thresholds, without a gap
NotifiedWithoutGap ==
  \A t \in Thresholds :
    t \in notifiedValues => \A u \in Thresholds : u < t => u \in notifiedValues

\* C22: progress reporting is advisory: no failed notification ends the
\* process, rejects the stage or leaves its promise unsettled.
Cex_C22_ReportingIsAdvisory ==
  task.alive /\ task.blame # "notification failed"

\* the stages whose notifications all succeeded are never blamed
BlameOnlyAfterFailure ==
  [][task'.blame # task.blame =>
       \/ /\ task.pc \in {"starting", "skip notice"}
          /\ task'.pc = "ended"
          /\ task'.settled # "resolved"
       \/ task'.inflight < task.inflight]_vars

\* C26: once the torrent's 'done' event has occurred and downloadTorrent
\* has registered its handlers, the promise is resolved, whichever of the
\* two came first.
Cex_C26_DoneSettles ==
  (task.kind = "download" /\ task.doneFired /\ task.handlerOn) =>
    task.settled = "resolved"

\* a 'done' event that comes after the registration resolves the promise
\* and stops the timer
DoneAfterRegistrationSettles ==
  [][(TorrentDone /\ task.handlerOn) =>
       task'.settled = "resolved" /\ ~task'.timerOn]_vars

\* C27: whatever the callbacks still awaiting their notification, the
\* values notified by one reporter are strictly increasing multiples of 20
\* (so none twice), none above 100 and none above the progress its callback
\* observed.
Thm_C27_ReporterUnderOverlap ==
  \A i \in 1..Len(task.notified) :
    /\ task.notified[i].value % notifyStep = 0
    /\ task.notified[i].value > 0
    /\ task.notified[i].value <= 100
    /\ task.notified[i].value <= task.notified[i].seen
    /\ \A j \in 1..(i - 1) : task.notified[j].value < task.notified[i].value

\* all five values notified while three callbacks still await their send
Wit_C27_OverlappingCallbacks ==
  /\ Len(task.notified) = 5
  /\ task.inflight >= 3
  /\ task.progress > 100

\* C28: an output that compressForWhatsapp made by copying is not refused
\* by sendVideoViaWhatsApp as too big.
Cex_C28_CopiesAreSendable ==
  task.copied => ~tooBigForWhatsApp(task.outSize)

\* what holds of a copy: it is the input, of at most the threshold's size
CopiesAreUnderThreshold ==
  task.copied =>
    task.outSize = task.sizeMB /\ task.outSize <= COMPRESSION_THRESHOLD_MB

-----------------------------------------------------------------------------
(* Claims about scoreTorrent called on its own, checked under SpecScore    *)

\* the seeders field is missing, empty or holds no number to parse
withoutSeeders(t) ==
  \/ t.seeders.k = "undef"
  \/ t.seeders.k = "str" /\ parseInt(t.seeders.s).nan

\* C23: a torrent whose seeders field is missing, empty or unparseable
\* scores exactly tier * 1000, a finite number that is not negative.
Cex_C23_NoSeedersScoresTier ==
  rank.op = "scoreTorrent" =>
    LET t == rank.ranked[1]
    IN withoutSeeders(t) =>
         /\ ~t.score.nan
         /\ t.score.v = qualityScore(t.name) * TierWeight * SeederDivisor

\* what holds: a missing or empty field counts as 0 seeders
AbsentSeedersScoreTier ==
  rank.op = "scoreTorrent" =>
    LET t == rank.ranked[1]
    IN ~truthy(t.seeders) =>
         t.score = Num(qualityScore(t.name) * TierWeight * SeederDivisor)

-----------------------------------------------------------------------------
(* Claims about the files a later run finds, checked under SpecRun         *)

isDerivedVideo(file) ==
  includes(file, HebsubMark) \/ includes(file, WhatsappMark)

\* C24: the matching pipeline never takes a file whose name contains
\* '.hebsub.' or '.whatsapp.' as the existing source video.
Cex_C24_MatchingSkipsDerived ==
  (pipeline = "matching" /\ run.videoPath # NoPath) =>
    ~isDerivedVideo(run.videoPath)

\* the staged pipeline's handleVideoDownload never does
StagedSkipsDerived ==
  (pipeline = "staged" /\ run.videoPath # NoPath) =>
    ~isDerivedVideo(run.videoPath)

-----------------------------------------------------------------------------
(* Claims about translateSRTtoHebrew, checked under SpecTranslate          *)

RECURSIVE concatenated(_)
concatenated(seqs) ==
  IF Len(seqs) = 0 THEN <<>> ELSE Head(seqs) \o concatenated(Tail(seqs))

\* the writes to the destination that have been made
writesMade ==
  SelectSeq(translation.writes, LAMBDA w : w.op # "pending")

\* C25: the chunks hold at most 100 blocks each and together are the
\* source's blocks in order; the requests are the chunks in order, one
\* each; the destination is emptied once, before the first request, and
\* receives the answers in the order of the requests.
Thm_C25_ChunksInOrder ==
  translation.pc \notin {"idle"} /\ translation.err # ErrNoEntry =>
    LET chunks == translation.chunks
        requests == translation.requests
        writes == translation.writes
    IN /\ \A k \in 1..Len(chunks) : Len(chunks[k]) <= chunkSize
       /\ concatenated(chunks) = translation.blocks
       /\ Len(requests) <= Len(chunks)
       /\ \A k \in 1..Len(requests) : requests[k] = chunks[k]
       /\ translation.pc = "ended" /\ translation.err = "none" =>
            Len(requests) = Len(chunks)
       /\ Len(writes) >= 1 /\ writes[1].op = "writeFile"
       /\ \A k \in 2..Len(writes) : writes[k].op # "writeFile"
       /\ Len(writes) - 1 <= Len(requests)
       /\ Len(writesMade) - 1 >= Len(requests) - 1
       /\ \A k \in 2..Len(writes) : writes[k].text \in {requests[k - 1], <<>>}

\* a source of more than two full chunks translated to the end
Wit_C25_ThreeChunksTranslated ==
  /\ translation.pc = "ended"
  /\ translation.err = "none"
  /\ Len(translation.chunks) = 3
  /\ Len(translation.chunks[3]) < chunkSize
  /\ \A k \in 2..4 : translation.writes[k].text # <<>>

-----------------------------------------------------------------------------
(* Claims about formatDuration, checked under SpecDuration                 *)

\* the words of a text, separated by single spaces
RECURSIVE wordsOf(_)
wordsOf(text) ==
  IF \A i \in 1..Len(text) : text[i] # " " THEN <<text>>
  ELSE LET i == CHOOSE k \in 1..Len(text) :
                  text[k] = " " /\ \A j \in 1..(k - 1) : text[j] # " "
       IN <<SubSeq(text, 1, i - 1)>> \o wordsOf(SubSeq(text, i + 1, Len(text)))

\* a word is a component of the unit: decimal digits, then the unit
isComponent(word, unit) ==
  /\ Len(word) >= 2
  /\ word[Len(word)] = unit
  /\ leadingDigits(word) = SubSeq(word, 1, Len(word) - 1)

printedComponents(unit) ==
  LET words == wordsOf(duration.out)
  IN {i \in 1..Len(words) : isComponent(words[i], unit)}

isPrinted(unit) == printedComponents(unit) # {}

\* the value printed for the unit, 0 when the unit is not printed
printedValue(unit) ==
  IF ~isPrinted(unit) THEN 0
  ELSE LET word == wordsOf(duration.out)[CHOOSE i \in printedComponents(unit) : TRUE]
       IN digitsValue(SubSeq(word, 1, Len(word) - 1))

\* C30: for n >= 0 the printed components add up to n, with hours below
\* 24 and minutes and seconds below 60; days, hours and minutes are printed
\* exactly when they are not zero, seconds always; a negative n prints 0s.
Thm_C30_ComponentsOfDuration ==
  duration.pc = "done" =>
    LET n == duration.seconds
        words == wordsOf(duration.out)
    IN IF n < 0 THEN duration.out = <<"0", "s">>
       ELSE /\ printedValue("d") * SecondsPerDay + printedValue("h") * SecondsPerHour
                 + printedValue("m") * SecondsPerMinute + printedValue("s") = n
            /\ printedValue("h") < 24
            /\ printedValue("m") < 60
            /\ printedValue("s") < 60
            /\ \A u \in {"d", "h", "m"} : isPrinted(u) <=> printedValue(u) # 0
            /\ isPrinted("s")
            /\ \A u \in {"d", "h", "m", "s"} : Cardinality(printedComponents(u)) <= 1
            /\ \A i \in 1..Len(words) :
                 \E u \in {"d", "h", "m", "s"} : isComponent(words[i], u)

\* a day and some seconds, without hours or minutes: 1d 59s
Wit_C30_DayAndSeconds ==
  /\ duration.pc = "done"
  /\ duration.seconds = SecondsPerDay + 59
  /\ duration.out = <<"1", "d", " ", "5", "9", "s">>

====
